---- MODULE Spec2Model ----
(***************************************************************************)
(* A model of the doubly oblivious Path ORAM of this repository:           *)
(* PathOram::new and PathOram::access (src/src/path_oram.rs) over the      *)
(* growable ObliviousStash (src/src/stash.rs).  The collaborators whose    *)
(* source is not part of the tree under study (the block record, the tree  *)
(* index arithmetic, the bitonic sort and the position map) are modelled   *)
(* from their description in spec.md.                                      *)
(*                                                                         *)
(* The loops over the stash slots are written as operators over a range    *)
(* lo..hi of slots that is halved: the state after the body ran for lo,    *)
(* ..., hi in this order.  The state left by the first half is compared    *)
(* with the one it started from, so that it is evaluated before the second *)
(* half is entered; either way the second half starts from the state the   *)
(* first half left.                                                        *)
(***************************************************************************)
EXTENDS Integers, Sequences, FiniteSets, TLC

VARIABLES
    new_result,        \* outcome of PathOram::new: "None" before the call
    block_capacity,    \* the argument given to PathOram::new
    height,            \* PathOram.height
    physical_memory,   \* PathOram.physical_memory: node index -> bucket (Z slots)
    blocks,            \* ObliviousStash.blocks
    path_size,         \* ObliviousStash.path_size
    position_map,      \* PathOram.position_map: entry index -> leaf
    last,              \* what the most recent access call did and returned
    mirror,            \* the plain array the correctness tests compare with
    accesses           \* how many access calls were made

vars == <<new_result, block_capacity, height, physical_memory, blocks,
          path_size, position_map, last, mirror, accesses>>

----------------------------------------------------------------------------
(* Bounds of the model and constants of the program *)

\* const generic Z of PathOram: blocks per bucket
Z == 2
\* const generic AB of PathOram: leaf labels per position block
AB == 3
\* PathOram::new is tried with every block_capacity in 0..MaxCapacity
MaxCapacity == 4
\* block values are 0..MaxValue, V::default() being 0
MaxValue == 1

\* at most MaxAccesses calls of access, read and write follow PathOram::new
MaxAccesses == 3
\* the random permutation drawn by PathOram::new is one of the rotations
\* by 0..MaxRotation
MaxRotation == 1
\* the overflow budget given to ObliviousStash::new, scaled down from the 40
\* of PathOram::new
OVERFLOW_SIZE == 2

STASH_GROWTH_INCREMENT == 10
\* TreeIndex::MAX, scaled down from 2^64 - 1
TreeIndex_MAX == 1000000

Values == 0..MaxValue
default == 0

\* the callbacks handed to access: read's identity, write's constants, and
\* an in-place update
identity_callback == [v \in Values |-> v]
write_callback(x) == [v \in Values |-> x]
update_callback == [v \in Values |-> (v + 1) % (MaxValue + 1)]

----------------------------------------------------------------------------
(* Block records and tree index arithmetic *)

DUMMY_ADDRESS == TreeIndex_MAX
DUMMY_POSITION == TreeIndex_MAX

dummy == [value |-> default, address |-> DUMMY_ADDRESS, position |-> DUMMY_POSITION]

ct_is_dummy(block) == block.address = DUMMY_ADDRESS

RECURSIVE pow2(_)
pow2(n) == IF n <= 0 THEN 1 ELSE 2 * pow2(n - 1)

RECURSIVE ilog2(_)
ilog2(n) == IF n <= 1 THEN 0 ELSE 1 + ilog2(n \div 2)

is_power_of_two(n) == n >= 1 /\ pow2(ilog2(n)) = n

\* depth of a node: floor(log2(node)), the root 1 having depth 0
ct_depth(node) == ilog2(node)

\* the ancestor at `depth` of a node at depth `h`: node >> (h - depth)
ct_node_on_path(node, depth, h) == node \div pow2(h - depth)

is_leaf(node, h) == ct_depth(node) = h

Leaves(h) == pow2(h)..(pow2(h + 1) - 1)

\* the sequence of n copies of x, as an explicit tuple
copies(x, n) == [i \in 1..n |-> x] \o <<>>

----------------------------------------------------------------------------
(* The oblivious sort used by the eviction *)

SelectKey(items, keys, k) ==
    LET pairs == [i \in 1..Len(items) |-> <<keys[i], items[i]>>]
        HasKey(p) == p[1] = k
        chosen == SelectSeq(pairs, HasKey)
    IN  [i \in 1..Len(chosen) |-> chosen[i][2]]

MinOf(S) == CHOOSE k \in S : \A j \in S : k <= j

RECURSIVE SortFrom(_, _, _)
SortFrom(items, keys, remaining) ==
    IF remaining = {} THEN <<>>
    ELSE LET k == MinOf(remaining)
         IN  SelectKey(items, keys, k) \o SortFrom(items, keys, remaining \ {k})

\* sorts `items` by `keys` ascending; the order in which the sorting network
\* leaves items of equal keys is taken to be the order they had
bitonic_sort_by_keys(items, keys) ==
    LET keyset == {keys[i] : i \in 1..Len(keys)}
    IN  [items |-> SortFrom(items, keys, keyset),
         keys |-> SortFrom(keys, keys, keyset)]

----------------------------------------------------------------------------
(* ObliviousStash *)

\* ObliviousStash::new
stash_new(p_size, overflow_size) ==
    [blocks |-> copies(dummy, p_size + overflow_size),
     path_size |-> p_size]

\* read_from_path with the loop over the levels stopping short of the root
read_from_path_root_skipped(stash_blocks, p_size, memory, position) ==
    LET h == ct_depth(position)
        n == p_size \div Z
        bucket_of(k) == memory[ct_node_on_path(position, (k - 1) \div Z, h)]
    IN  [blocks |-> [k \in 1..(n * Z) |->
                        IF k <= Z THEN stash_blocks[k]
                                  ELSE bucket_of(k)[((k - 1) % Z) + 1]]
                        \o SubSeq(stash_blocks, n * Z + 1, Len(stash_blocks)),
         reads |-> [j \in 1..(n - 1) |-> ct_node_on_path(position, n - j, h)],
         slots |-> [j \in 1..((n - 1) * Z) |->
                       Z * (n - 1 - ((j - 1) \div Z)) + ((j - 1) % Z)]]

\* read_from_path with the slots behind the path slots reset to dummies
read_from_path_overflow_cleared(stash_blocks, p_size, memory, position) ==
    LET h == ct_depth(position)
        n == p_size \div Z
        bucket_of(k) == memory[ct_node_on_path(position, (k - 1) \div Z, h)]
    IN  [blocks |-> [k \in 1..(n * Z) |-> bucket_of(k)[((k - 1) % Z) + 1]]
                        \o copies(dummy, Len(stash_blocks) - n * Z),
         reads |-> [j \in 1..n |-> ct_node_on_path(position, n - j, h)],
         slots |-> [j \in 1..(n * Z) |->
                       Z * (n - 1 - ((j - 1) \div Z)) + ((j - 1) % Z)]]

\* ObliviousStash::read_from_path: the buckets of the path to `position`,
\* deepest first, are copied into the first path_size slots of the stash.
\* `reads` lists the bucket indices in the order they are read and `slots`
\* the stash indices, counted from 0 as in the code, in the order they are
\* written.
read_from_path(stash_blocks, p_size, memory, position) ==
    LET h == ct_depth(position)
        n == p_size \div Z
        bucket_of(k) == memory[ct_node_on_path(position, (k - 1) \div Z, h)]
    IN  [blocks |-> [k \in 1..(n * Z) |-> bucket_of(k)[((k - 1) % Z) + 1]]
                        \o SubSeq(stash_blocks, n * Z + 1, Len(stash_blocks)),
         reads |-> [j \in 1..n |-> ct_node_on_path(position, n - j, h)],
         slots |-> [j \in 1..(n * Z) |->
                       Z * (n - 1 - ((j - 1) \div Z)) + ((j - 1) % Z)]]

\* scan_block with the result assigned from every slot, requested or not
scan_block_unconditional_result(block, address, new_position, callback, result, found) ==
    LET is_requested_index == block.address = address
        result2 == block.value
        value_to_write == callback[result2]
    IN  [block |-> [address |-> block.address,
                    position |-> IF is_requested_index THEN new_position
                                                       ELSE block.position,
                    value |-> IF is_requested_index THEN value_to_write
                                                    ELSE block.value],
         result |-> result2,
         found |-> found \/ is_requested_index]

\* scan_block with the new position not written into the target block
scan_block_position_kept(block, address, new_position, callback, result, found) ==
    LET is_requested_index == block.address = address
        result2 == IF is_requested_index THEN block.value ELSE result
        value_to_write == callback[result2]
    IN  [block |-> [address |-> block.address,
                    position |-> block.position,
                    value |-> IF is_requested_index THEN value_to_write
                                                    ELSE block.value],
         result |-> result2,
         found |-> found \/ is_requested_index]

\* one iteration of the scan of ObliviousStash::access, on slot `block`
\* with the running `result` and `found`
scan_block(block, address, new_position, callback, result, found) ==
    LET is_requested_index == block.address = address
        result2 == IF is_requested_index THEN block.value ELSE result
        value_to_write == callback[result2]
    IN  [block |-> [address |-> block.address,
                    position |-> IF is_requested_index THEN new_position
                                                       ELSE block.position,
                    value |-> IF is_requested_index THEN value_to_write
                                                    ELSE block.value],
         result |-> result2,
         found |-> found \/ is_requested_index]

\* the scan of ObliviousStash::access over the slots lo..hi.
\* st = [blocks, result, found].
RECURSIVE scan_stash(_, _, _, _, _, _)
scan_stash(lo, hi, address, new_position, callback, st) ==
    IF lo > hi THEN st
    ELSE IF lo = hi
    THEN LET r == scan_block(st.blocks[lo], address, new_position, callback,
                             st.result, st.found)
         IN  [blocks |-> [st.blocks EXCEPT ![lo] = r.block],
              result |-> r.result, found |-> r.found]
    ELSE LET mid == (lo + hi) \div 2
             half == scan_stash(lo, mid, address, new_position, callback, st)
         IN  IF half = st
             THEN scan_stash(mid + 1, hi, address, new_position, callback, st)
             ELSE scan_stash(mid + 1, hi, address, new_position, callback, half)

\* scan_slots with the scan left as soon as the requested block is met
scan_slots_until_found(stash_blocks, address) ==
    LET n == Len(stash_blocks)
        hits == {i \in 1..n : stash_blocks[i].address = address}
        stop == IF hits = {} THEN n ELSE MinOf(hits)
    IN  [i \in 1..stop |-> i - 1] \o <<n - 1>>

\* the stash indices, counted from 0, that ObliviousStash::access visits:
\* every slot in index order, whether or not it holds the requested block,
\* and then the last one
scan_slots(stash_blocks, address) ==
    LET n == Len(stash_blocks)
    IN  [i \in 1..n |-> i - 1] \o <<n - 1>>

\* stash_access with the block of the request written into the last slot
\* whether or not the scan found it
stash_access_last_slot_written(stash_blocks, address, new_position, callback) ==
    LET s == scan_stash(1, Len(stash_blocks), address, new_position, callback,
                        [blocks |-> stash_blocks, result |-> default,
                         found |-> FALSE])
        last_block_index == Len(s.blocks)
        last_block == s.blocks[last_block_index]
        miss_block == [value |-> callback[s.result], address |-> address,
                       position |-> new_position]
    IN  IF ~ct_is_dummy(last_block)
        THEN [blocks |-> s.blocks, result |-> s.result, found |-> s.found,
              panicked |-> TRUE, slots |-> scan_slots(stash_blocks, address)]
        ELSE [blocks |-> [s.blocks EXCEPT ![last_block_index] = miss_block],
              result |-> s.result, found |-> s.found, panicked |-> FALSE,
              slots |-> scan_slots(stash_blocks, address)]

\* stash_access with, on a miss, the default value written into the last
\* slot in place of the callback's value for it
stash_access_miss_value_unmapped(stash_blocks, address, new_position, callback) ==
    LET s == scan_stash(1, Len(stash_blocks), address, new_position, callback,
                        [blocks |-> stash_blocks, result |-> default,
                         found |-> FALSE])
        last_block_index == Len(s.blocks)
        last_block == s.blocks[last_block_index]
        miss_block == [value |-> s.result, address |-> address,
                       position |-> new_position]
    IN  IF ~ct_is_dummy(last_block)
        THEN [blocks |-> s.blocks, result |-> s.result, found |-> s.found,
              panicked |-> TRUE, slots |-> scan_slots(stash_blocks, address)]
        ELSE [blocks |-> IF s.found THEN s.blocks
                         ELSE [s.blocks EXCEPT ![last_block_index] = miss_block],
              result |-> s.result, found |-> s.found, panicked |-> FALSE,
              slots |-> scan_slots(stash_blocks, address)]

\* ObliviousStash::access.  `panicked` is the failure of the assertion that
\* the last slot holds a dummy.
stash_access(stash_blocks, address, new_position, callback) ==
    LET s == scan_stash(1, Len(stash_blocks), address, new_position, callback,
                        [blocks |-> stash_blocks, result |-> default,
                         found |-> FALSE])
        last_block_index == Len(s.blocks)
        last_block == s.blocks[last_block_index]
        miss_block == [value |-> callback[s.result], address |-> address,
                       position |-> new_position]
    IN  IF ~ct_is_dummy(last_block)
        THEN [blocks |-> s.blocks, result |-> s.result, found |-> s.found,
              panicked |-> TRUE, slots |-> scan_slots(stash_blocks, address)]
        ELSE [blocks |-> IF s.found THEN s.blocks
                         ELSE [s.blocks EXCEPT ![last_block_index] = miss_block],
              result |-> s.result, found |-> s.found, panicked |-> FALSE,
              slots |-> scan_slots(stash_blocks, address)]

\* ObliviousStash::occupancy
occupancy(stash_blocks, p_size) ==
    Cardinality({i \in (p_size + 1)..Len(stash_blocks) : ~ct_is_dummy(stash_blocks[i])})

----------------------------------------------------------------------------
(* ObliviousStash::write_to_path.  level_counts[level + 1] is the counter   *)
(* of `level`, the root being level 0.                                      *)

\* assign_block_level with the test that the level lies on the path of the
\* block's position left out
RECURSIVE assign_block_level_any_level(_, _, _, _, _, _)
assign_block_level_any_level(level, block_position, block_is_dummy, position, h, st) ==
    IF level < 0 THEN st
    ELSE LET level_bucket_full == st.counts[level + 1] = Z
             should_assign == /\ ~level_bucket_full
                              /\ ~block_is_dummy
                              /\ ~st.assigned
         IN  assign_block_level_any_level(level - 1, block_position, block_is_dummy,
                 position, h,
                 [assigned |-> st.assigned \/ should_assign,
                  counts |-> IF should_assign
                             THEN [st.counts EXCEPT ![level + 1] = @ + 1]
                             ELSE st.counts,
                  assignment |-> IF should_assign THEN level ELSE st.assignment])

\* stage 1, inner loop: the levels are scanned from the leaf to the root
\* and the block goes to the first level on the path of its position whose
\* bucket is not full.  st = [assigned, counts, assignment].
RECURSIVE assign_block_level(_, _, _, _, _, _)
assign_block_level(level, block_position, block_is_dummy, position, h, st) ==
    IF level < 0 THEN st
    ELSE LET level_bucket_full == st.counts[level + 1] = Z
             level_satisfies_invariant ==
                 ct_node_on_path(block_position, level, h)
                     = ct_node_on_path(position, level, h)
             should_assign == /\ level_satisfies_invariant
                              /\ ~level_bucket_full
                              /\ ~block_is_dummy
                              /\ ~st.assigned
         IN  assign_block_level(level - 1, block_position, block_is_dummy,
                 position, h,
                 [assigned |-> st.assigned \/ should_assign,
                  counts |-> IF should_assign
                             THEN [st.counts EXCEPT ![level + 1] = @ + 1]
                             ELSE st.counts,
                  assignment |-> IF should_assign THEN level ELSE st.assignment])

\* assign_real_block with a block that no level takes left unassigned
assign_real_block_overflow_unmarked(stash_blocks, position, i, st) ==
    LET h == ct_depth(position)
        block == stash_blocks[i]
        block_is_dummy == ct_is_dummy(block)
        an_arbitrary_leaf == pow2(h)
        block_position == IF block_is_dummy THEN an_arbitrary_leaf
                                            ELSE block.position
        a == assign_block_level(h, block_position, block_is_dummy, position, h,
                 [assigned |-> FALSE, counts |-> st.level_counts,
                  assignment |-> st.level_assignments[i]])
    IN  [level_counts |-> a.counts,
         level_assignments |-> [st.level_assignments EXCEPT ![i] = a.assignment]]

\* stage 1, the body of the outer loop for slot i.
\* st = [level_counts, level_assignments].
assign_real_block(stash_blocks, position, i, st) ==
    LET h == ct_depth(position)
        block == stash_blocks[i]
        block_is_dummy == ct_is_dummy(block)
        an_arbitrary_leaf == pow2(h)
        block_position == IF block_is_dummy THEN an_arbitrary_leaf
                                            ELSE block.position
        a == assign_block_level(h, block_position, block_is_dummy, position, h,
                 [assigned |-> FALSE, counts |-> st.level_counts,
                  assignment |-> st.level_assignments[i]])
        overflowed == ~a.assigned /\ ~block_is_dummy
    IN  [level_counts |-> a.counts,
         level_assignments |->
             [st.level_assignments EXCEPT
                 ![i] = IF overflowed THEN TreeIndex_MAX - 1 ELSE a.assignment]]

\* assign_real_blocks with the slots met from the last to the first
RECURSIVE assign_real_blocks_last_slot_first(_, _, _, _, _)
assign_real_blocks_last_slot_first(stash_blocks, position, lo, hi, st) ==
    IF lo > hi THEN st
    ELSE IF lo = hi THEN assign_real_block(stash_blocks, position, lo, st)
    ELSE LET mid == (lo + hi) \div 2
             half == assign_real_blocks_last_slot_first(stash_blocks, position,
                                                        mid + 1, hi, st)
         IN  IF half = st
             THEN assign_real_blocks_last_slot_first(stash_blocks, position, lo, mid, st)
             ELSE assign_real_blocks_last_slot_first(stash_blocks, position, lo, mid, half)

\* stage 1, the outer loop over the slots lo..hi
RECURSIVE assign_real_blocks(_, _, _, _, _)
assign_real_blocks(stash_blocks, position, lo, hi, st) ==
    IF lo > hi THEN st
    ELSE IF lo = hi THEN assign_real_block(stash_blocks, position, lo, st)
    ELSE LET mid == (lo + hi) \div 2
             half == assign_real_blocks(stash_blocks, position, lo, mid, st)
         IN  IF half = st
             THEN assign_real_blocks(stash_blocks, position, mid + 1, hi, st)
             ELSE assign_real_blocks(stash_blocks, position, mid + 1, hi, half)

\* fill_block_level without the flag that stops a block at its first level
RECURSIVE fill_block_level_every_level(_, _, _, _)
fill_block_level_every_level(level, h, block_free, st) ==
    IF level > h THEN st
    ELSE LET full == st.counts[level + 1] = Z
             no_op == full \/ ~block_free
         IN  fill_block_level_every_level(level + 1, h, block_free,
                 [assigned |-> st.assigned \/ ~no_op,
                  counts |-> IF no_op THEN st.counts
                             ELSE [st.counts EXCEPT ![level + 1] = @ + 1],
                  assignment |-> IF no_op THEN st.assignment ELSE level])

\* stage 2, inner loop: a free block goes to the first level, from the root
\* down, whose bucket is not full.  st = [assigned, counts, assignment].
RECURSIVE fill_block_level(_, _, _, _)
fill_block_level(level, h, block_free, st) ==
    IF level > h THEN st
    ELSE LET full == st.counts[level + 1] = Z
             no_op == st.assigned \/ full \/ ~block_free
         IN  fill_block_level(level + 1, h, block_free,
                 [assigned |-> st.assigned \/ ~no_op,
                  counts |-> IF no_op THEN st.counts
                             ELSE [st.counts EXCEPT ![level + 1] = @ + 1],
                  assignment |-> IF no_op THEN st.assignment ELSE level])

\* stage 2, the body of a pass for slot i.
\* st = [level_counts, level_assignments].
fill_block(stash_blocks, h, i, st) ==
    LET block_free == ct_is_dummy(stash_blocks[i])
        f == fill_block_level(0, h, block_free,
                 [assigned |-> FALSE, counts |-> st.level_counts,
                  assignment |-> st.level_assignments[i]])
    IN  [level_counts |-> f.counts,
         level_assignments |-> [st.level_assignments EXCEPT ![i] = f.assignment]]

\* stage 2, one pass, over the slots lo..hi
RECURSIVE fill_pass(_, _, _, _, _)
fill_pass(stash_blocks, h, lo, hi, st) ==
    IF lo > hi THEN st
    ELSE IF lo = hi THEN fill_block(stash_blocks, h, lo, st)
    ELSE LET mid == (lo + hi) \div 2
             half == fill_pass(stash_blocks, h, lo, mid, st)
         IN  IF half = st THEN fill_pass(stash_blocks, h, mid + 1, hi, st)
                          ELSE fill_pass(stash_blocks, h, mid + 1, hi, half)

\* fill_loop with the stash growing by a single dummy before each further
\* pass
RECURSIVE fill_loop_grow_by_one(_, _, _, _, _, _)
fill_loop_grow_by_one(stash_blocks, h, first_unassigned_block_index, level_counts, level_assignments, passes) ==
    LET r == fill_pass(stash_blocks, h, first_unassigned_block_index + 1,
                       Len(stash_blocks) - 1,
                       [level_counts |-> level_counts,
                        level_assignments |-> level_assignments])
        exists_unfilled_levels == \E l \in 0..h : r.level_counts[l + 1] # Z
        pass_slots == [k \in 1..(Len(stash_blocks) - 1 - first_unassigned_block_index) |->
                          first_unassigned_block_index + k - 1] \o <<>>
    IN  IF exists_unfilled_levels
        THEN LET rest == fill_loop_grow_by_one(
                     stash_blocks \o <<dummy>>,
                     h, Len(stash_blocks) - 1, r.level_counts,
                     r.level_assignments \o <<TreeIndex_MAX>>,
                     passes + 1)
             IN  [rest EXCEPT !.visited = pass_slots \o @]
        ELSE [blocks |-> stash_blocks, level_counts |-> r.level_counts,
              level_assignments |-> r.level_assignments, passes |-> passes + 1,
              visited |-> pass_slots]

\* fill_loop with the passes running over the last slot of the stash too
RECURSIVE fill_loop_last_slot_used(_, _, _, _, _, _)
fill_loop_last_slot_used(stash_blocks, h, first_unassigned_block_index, level_counts, level_assignments, passes) ==
    LET r == fill_pass(stash_blocks, h, first_unassigned_block_index + 1,
                       Len(stash_blocks),
                       [level_counts |-> level_counts,
                        level_assignments |-> level_assignments])
        exists_unfilled_levels == \E l \in 0..h : r.level_counts[l + 1] # Z
        pass_slots == [k \in 1..(Len(stash_blocks) - first_unassigned_block_index) |->
                          first_unassigned_block_index + k - 1] \o <<>>
    IN  IF exists_unfilled_levels
        THEN LET rest == fill_loop_last_slot_used(
                     stash_blocks \o copies(dummy, STASH_GROWTH_INCREMENT),
                     h, Len(stash_blocks) - 1, r.level_counts,
                     r.level_assignments \o copies(TreeIndex_MAX, STASH_GROWTH_INCREMENT),
                     passes + 1)
             IN  [rest EXCEPT !.visited = pass_slots \o @]
        ELSE [blocks |-> stash_blocks, level_counts |-> r.level_counts,
              level_assignments |-> r.level_assignments, passes |-> passes + 1,
              visited |-> pass_slots]

\* stage 2, the while loop: passes are repeated, the stash growing by
\* STASH_GROWTH_INCREMENT dummies before each further pass, until every
\* level is full.  `passes` counts the executions of the loop body and
\* `visited` lists the stash indices, counted from 0, that the passes visit.
RECURSIVE fill_loop(_, _, _, _, _, _)
fill_loop(stash_blocks, h, first_unassigned_block_index, level_counts, level_assignments, passes) ==
    LET \* the pass stops before the last slot, which is reserved
        r == fill_pass(stash_blocks, h, first_unassigned_block_index + 1,
                       Len(stash_blocks) - 1,
                       [level_counts |-> level_counts,
                        level_assignments |-> level_assignments])
        exists_unfilled_levels == \E l \in 0..h : r.level_counts[l + 1] # Z
        pass_slots == [k \in 1..(Len(stash_blocks) - 1 - first_unassigned_block_index) |->
                          first_unassigned_block_index + k - 1] \o <<>>
    IN  IF exists_unfilled_levels
        THEN LET rest == fill_loop(
                     stash_blocks \o copies(dummy, STASH_GROWTH_INCREMENT),
                     h, Len(stash_blocks) - 1, r.level_counts,
                     r.level_assignments \o copies(TreeIndex_MAX, STASH_GROWTH_INCREMENT),
                     passes + 1)
             IN  [rest EXCEPT !.visited = pass_slots \o @]
        ELSE [blocks |-> stash_blocks, level_counts |-> r.level_counts,
              level_assignments |-> r.level_assignments, passes |-> passes + 1,
              visited |-> pass_slots]

\* fill_iteration with the stash left as it is when a level stays unfilled
fill_iteration_without_growth(stash_blocks, h, first_unassigned_block_index, level_counts, level_assignments) ==
    LET r == fill_pass(stash_blocks, h, first_unassigned_block_index + 1,
                       Len(stash_blocks) - 1,
                       [level_counts |-> level_counts,
                        level_assignments |-> level_assignments])
        exists_unfilled_levels == \E l \in 0..h : r.level_counts[l + 1] # Z
    IN  [blocks |-> stash_blocks,
         first_unassigned_block_index |->
             IF exists_unfilled_levels THEN Len(stash_blocks) - 1
                                       ELSE first_unassigned_block_index,
         level_counts |-> r.level_counts,
         level_assignments |-> r.level_assignments,
         exists_unfilled_levels |-> exists_unfilled_levels]

\* fill_iteration with the stash replaced, when it grows, by a stash of
\* dummies of the new length
fill_iteration_stash_replaced(stash_blocks, h, first_unassigned_block_index, level_counts, level_assignments) ==
    LET r == fill_pass(stash_blocks, h, first_unassigned_block_index + 1,
                       Len(stash_blocks) - 1,
                       [level_counts |-> level_counts,
                        level_assignments |-> level_assignments])
        exists_unfilled_levels == \E l \in 0..h : r.level_counts[l + 1] # Z
    IN  IF exists_unfilled_levels
        THEN [blocks |-> copies(dummy, Len(stash_blocks) + STASH_GROWTH_INCREMENT),
              first_unassigned_block_index |-> Len(stash_blocks) - 1,
              level_counts |-> r.level_counts,
              level_assignments |->
                  r.level_assignments \o copies(TreeIndex_MAX, STASH_GROWTH_INCREMENT),
              exists_unfilled_levels |-> TRUE]
        ELSE [blocks |-> stash_blocks,
              first_unassigned_block_index |-> first_unassigned_block_index,
              level_counts |-> r.level_counts,
              level_assignments |-> r.level_assignments,
              exists_unfilled_levels |-> FALSE]

\* stage 2, one execution of the body of the while loop: a pass from slot
\* first_unassigned_block_index to the slot before the last, the test of
\* the counters and, when a level is left unfilled, the growth of the stash
\* and of the assignments by STASH_GROWTH_INCREMENT, the next pass starting
\* at what was the last slot
fill_iteration(stash_blocks, h, first_unassigned_block_index, level_counts, level_assignments) ==
    LET r == fill_pass(stash_blocks, h, first_unassigned_block_index + 1,
                       Len(stash_blocks) - 1,
                       [level_counts |-> level_counts,
                        level_assignments |-> level_assignments])
        exists_unfilled_levels == \E l \in 0..h : r.level_counts[l + 1] # Z
    IN  IF exists_unfilled_levels
        THEN [blocks |-> stash_blocks \o copies(dummy, STASH_GROWTH_INCREMENT),
              first_unassigned_block_index |-> Len(stash_blocks) - 1,
              level_counts |-> r.level_counts,
              level_assignments |->
                  r.level_assignments \o copies(TreeIndex_MAX, STASH_GROWTH_INCREMENT),
              exists_unfilled_levels |-> TRUE]
        ELSE [blocks |-> stash_blocks,
              first_unassigned_block_index |-> first_unassigned_block_index,
              level_counts |-> r.level_counts,
              level_assignments |-> r.level_assignments,
              exists_unfilled_levels |-> FALSE]

\* bucket_to_write with the slot number left out of the stash index
bucket_to_write_first_slot(sorted_blocks, depth) ==
    [slot \in 1..Z |-> sorted_blocks[depth * Z + 1]]

\* bucket_to_write with the slot range taken one slot too far
bucket_to_write_shifted(sorted_blocks, depth) ==
    [slot \in 1..Z |-> sorted_blocks[depth * Z + slot + 1]]

\* stage 3: the bucket written at `depth` is the slot range
\* [Z*depth, Z*depth + Z) of the sorted stash
bucket_to_write(sorted_blocks, depth) ==
    [slot \in 1..Z |-> sorted_blocks[depth * Z + slot]]

\* write_buckets with the bucket of depth d written at node d + 1, whatever
\* the path is
write_buckets_by_depth(memory, sorted_blocks, position) ==
    LET h == ct_depth(position)
    IN  [n \in DOMAIN memory |->
            IF n - 1 \in 0..h THEN bucket_to_write(sorted_blocks, n - 1)
                              ELSE memory[n]]

\* stage 3, the loop over the depths: the bucket of each depth is written
\* at the node of that depth on the path to `position`
write_buckets(memory, sorted_blocks, position) ==
    LET h == ct_depth(position)
        on_path(n) == \E d \in 0..h : ct_node_on_path(position, d, h) = n
        depth_of(n) == CHOOSE d \in 0..h : ct_node_on_path(position, d, h) = n
    IN  [n \in DOMAIN memory |->
            IF on_path(n) THEN bucket_to_write(sorted_blocks, depth_of(n))
                          ELSE memory[n]]

\* what write_to_path leaves and records, given what its stages computed:
\* the stash and the memory it leaves, the bucket indices written, the
\* number of fill passes, the stash indices, counted from 0, visited by
\* stage 1, stage 2 and stage 3, and, as `eviction`, the stash it started
\* from, the assignments and counters at the end of stage 1, the stash, the
\* assignments and the counters at the end of stage 2 and the keys after
\* the sort.
write_to_path_result(stash_blocks, memory, position, stage1, stage2, sorted) ==
    LET h == ct_depth(position)
    IN  [blocks |-> sorted.items,
         memory |-> write_buckets(memory, sorted.items, position),
         writes |-> [j \in 1..(h + 1) |-> ct_node_on_path(position, j - 1, h)],
         slots |-> [i \in 1..Len(stash_blocks) |-> i - 1]
                       \o stage2.visited
                       \o [k \in 1..(Z * (h + 1)) |-> k - 1],
         eviction |-> [scanned |-> stash_blocks,
                       stage1_assignments |-> stage1.level_assignments,
                       stage1_counts |-> stage1.level_counts,
                       filled |-> stage2.blocks,
                       level_assignments |-> stage2.level_assignments,
                       level_counts |-> stage2.level_counts,
                       sorted_keys |-> sorted.keys,
                       passes |-> stage2.passes]]

\* write_to_path from the sort on, given the results of stage 1 and stage 2
write_to_path_sort_and_write(stash_blocks, memory, position, stage1, stage2) ==
    write_to_path_result(stash_blocks, memory, position, stage1, stage2,
        bitonic_sort_by_keys(stage2.blocks, stage2.level_assignments))

\* write_to_path from stage 2 on, given the result of stage 1
write_to_path_fill(stash_blocks, memory, position, stage1) ==
    write_to_path_sort_and_write(stash_blocks, memory, position, stage1,
        fill_loop(stash_blocks, ct_depth(position), 0, stage1.level_counts,
                  stage1.level_assignments, 0))

\* ObliviousStash::write_to_path
write_to_path(stash_blocks, memory, position) ==
    write_to_path_fill(stash_blocks, memory, position,
        assign_real_blocks(stash_blocks, position, 1, Len(stash_blocks),
            [level_counts |-> copies(0, ct_depth(position) + 1),
             level_assignments |-> copies(TreeIndex_MAX, Len(stash_blocks))]))

----------------------------------------------------------------------------
(* The position map: ceil(C / AB) position blocks of AB leaf labels each,   *)
(* address a living in block a / AB at offset a mod AB.  It is kept as the  *)
(* function from entry index to leaf label.                                 *)

position_map_new == <<>>

\* PositionMap::write_position_block: installs the whole position block
\* whose base address is `base`
write_position_block(pm, base, data) ==
    [a \in (DOMAIN pm) \cup {base + i : i \in 0..(AB - 1)} |->
        IF a >= base /\ a < base + AB THEN data[a - base] ELSE pm[a]]

\* PositionMap::write: swaps the leaf of `address` for `new_position` and
\* returns the old one; an address outside the map is an error
position_map_write(pm, address, new_position) ==
    IF address \in DOMAIN pm
    THEN [ok |-> TRUE, position |-> pm[address],
          pm |-> [pm EXCEPT ![address] = new_position]]
    ELSE [ok |-> FALSE, position |-> 0, pm |-> pm]

----------------------------------------------------------------------------
(* PathOram::new *)

\* the permutations of 0..n-1 that random_permutation_of_0_through_n_exclusive
\* draws from: the rotations by 0..MaxRotation
random_permutations_of_0_through_n_exclusive(n) ==
    {[i \in 0..(n - 1) |-> (i + r) % n] : r \in 0..MaxRotation}

invert_permutation_oblivious(p) ==
    [a \in DOMAIN p |-> CHOOSE i \in DOMAIN p : p[i] = a]

\* invalid_configuration with the capacity 2 rejected as well
invalid_configuration_rejects_two(capacity) ==
    ~is_power_of_two(capacity) \/ capacity <= 2

\* the check that rejects a capacity
invalid_configuration(capacity) ==
    ~is_power_of_two(capacity) \/ capacity <= 1

\* initial_leaf_bucket with the first leaf as the position of every block
initial_leaf_bucket_first_leaf(leaf_index, first_leaf_index, slot_indices_to_addresses) ==
    [slot \in 1..Z |->
        IF slot - 1 < 2
        THEN [value |-> default,
              address |-> slot_indices_to_addresses[
                              (leaf_index - first_leaf_index) * 2 + (slot - 1)],
              position |-> first_leaf_index]
        ELSE dummy]

\* the leaf bucket written at construction: two real blocks, then dummies
initial_leaf_bucket(leaf_index, first_leaf_index, slot_indices_to_addresses) ==
    [slot \in 1..Z |->
        IF slot - 1 < 2
        THEN [value |-> default,
              address |-> slot_indices_to_addresses[
                              (leaf_index - first_leaf_index) * 2 + (slot - 1)],
              position |-> leaf_index]
        ELSE dummy]

\* write_position_blocks with the slot index of an address added to the
\* first leaf without being halved
RECURSIVE write_position_blocks_slot_index_not_halved(_, _, _, _, _)
write_position_blocks_slot_index_not_halved(pm, block_index, num_blocks, first_leaf_index, addresses_to_slot_indices) ==
    IF block_index >= num_blocks THEN pm
    ELSE LET offset == block_index * AB
             data == [i \in 0..(AB - 1) |->
                         first_leaf_index + addresses_to_slot_indices[offset + i]]
         IN  write_position_blocks_slot_index_not_halved(
                 write_position_block(pm, block_index * AB, data),
                 block_index + 1, num_blocks, first_leaf_index,
                 addresses_to_slot_indices)

\* the loop writing the position blocks block_index..num_blocks-1
RECURSIVE write_position_blocks(_, _, _, _, _)
write_position_blocks(pm, block_index, num_blocks, first_leaf_index, addresses_to_slot_indices) ==
    IF block_index >= num_blocks THEN pm
    ELSE LET offset == block_index * AB
             data == [i \in 0..(AB - 1) |->
                         first_leaf_index
                             + (addresses_to_slot_indices[offset + i] \div 2)]
         IN  write_position_blocks(
                 write_position_block(pm, block_index * AB, data),
                 block_index + 1, num_blocks, first_leaf_index,
                 addresses_to_slot_indices)

\* PathOram::new with the random permutation it draws given as an argument
new(capacity, slot_indices_to_addresses) ==
    LET number_of_nodes == capacity
        h == ilog2(capacity) - 1
        p_size == Z * (h + 1)
        stash == stash_new(p_size, OVERFLOW_SIZE)
        first_leaf_index == pow2(h)
        last_leaf_index == (2 * first_leaf_index) - 1
        memory == [n \in 0..(number_of_nodes - 1) |->
                      IF n >= first_leaf_index /\ n <= last_leaf_index
                      THEN initial_leaf_bucket(n, first_leaf_index,
                                               slot_indices_to_addresses)
                      ELSE [slot \in 1..Z |-> dummy]]
        inverse == invert_permutation_oblivious(slot_indices_to_addresses)
        padded == capacity % AB > 0
        num_blocks == (capacity \div AB) + (IF padded THEN 1 ELSE 0)
        addresses_to_slot_indices ==
            IF padded
            THEN [a \in 0..(capacity + AB - 1) |->
                     IF a < capacity THEN inverse[a] ELSE 0]
            ELSE inverse
    IN  [physical_memory |-> memory,
         blocks |-> stash.blocks,
         path_size |-> stash.path_size,
         position_map |-> write_position_blocks(position_map_new, 0, num_blocks,
                              first_leaf_index, addresses_to_slot_indices),
         height |-> h]

----------------------------------------------------------------------------
(* PathOram::access *)

\* the bounds check of access
address_out_of_bounds(address, capacity) == address > capacity

\* what a call that did not reach write_to_path records of the eviction
NoEviction == [scanned |-> <<>>, stage1_assignments |-> <<>>, stage1_counts |-> <<>>,
               filled |-> <<>>, level_assignments |-> <<>>, level_counts |-> <<>>,
               sorted_keys |-> <<>>, passes |-> 0]

NoCall == [op |-> "None", address |-> 0, status |-> "None", value |-> default,
           written |-> default, draws |-> 0, pm_lookups |-> 0, position |-> 0,
           reads |-> <<>>, writes |-> <<>>, new_position |-> 0, stash_len |-> 0,
           steps |-> <<>>, slots |-> <<>>, eviction |-> NoEviction]

\* PathOram::block_capacity
capacity_of(o) == Cardinality(DOMAIN o.physical_memory)

\* what a call records once the position map was asked: the address, the
\* leaf drawn, the lookup made and the length of the stash
looked_up(o, address, new_position) ==
    [NoCall EXCEPT !.address = address, !.draws = 1, !.pm_lookups = 1,
                   !.new_position = new_position,
                   !.stash_len = Len(o.blocks),
                   !.steps = << <<"position_map.write", address, new_position>> >>]

\* the end of a successful access: the ORAM it leaves and what it records,
\* given the results of its steps, the eviction having been made to the
\* path of `evicted_to`
access_evicted(o, address, callback, new_position, lookup, read, scan, evicted_to, evict) ==
    [o |-> [o EXCEPT !.position_map = lookup.pm,
                     !.blocks = evict.blocks,
                     !.physical_memory = evict.memory],
     call |-> [looked_up(o, address, new_position) EXCEPT
                  !.status = "Ok",
                  !.value = scan.result,
                  !.written = callback[scan.result],
                  !.position = lookup.position,
                  !.reads = read.reads,
                  !.writes = evict.writes,
                  !.steps = @ \o << <<"read_from_path", lookup.position>>,
                                    <<"stash.access", address, new_position>>,
                                    <<"write_to_path", evicted_to>> >>,
                  !.slots = read.slots \o scan.slots \o evict.slots,
                  !.eviction = evict.eviction]]

\* access_scanned with the eviction made to the path of the new position
access_scanned_evicts_to_new_position(o, address, callback, new_position, lookup, read, scan) ==
    IF scan.panicked
    THEN [o |-> [o EXCEPT !.position_map = lookup.pm, !.blocks = scan.blocks],
          call |-> [looked_up(o, address, new_position) EXCEPT
                       !.status = "Panic",
                       !.position = lookup.position,
                       !.reads = read.reads,
                       !.steps = @ \o << <<"read_from_path", lookup.position>>,
                                         <<"stash.access", address, new_position>> >>,
                       !.slots = read.slots \o scan.slots]]
    ELSE access_evicted(o, address, callback, new_position, lookup, read, scan,
             new_position,
             write_to_path(scan.blocks, o.physical_memory, new_position))

\* PathOram::access once stash.access has returned: the blocks of the stash
\* are evicted to the path that was read
access_scanned(o, address, callback, new_position, lookup, read, scan) ==
    IF scan.panicked
    THEN [o |-> [o EXCEPT !.position_map = lookup.pm, !.blocks = scan.blocks],
          call |-> [looked_up(o, address, new_position) EXCEPT
                       !.status = "Panic",
                       !.position = lookup.position,
                       !.reads = read.reads,
                       !.steps = @ \o << <<"read_from_path", lookup.position>>,
                                         <<"stash.access", address, new_position>> >>,
                       !.slots = read.slots \o scan.slots]]
    ELSE access_evicted(o, address, callback, new_position, lookup, read, scan,
             lookup.position,
             write_to_path(scan.blocks, o.physical_memory, lookup.position))

\* PathOram::access once the path was read: the stash is scanned
access_path_read(o, address, callback, new_position, lookup, read) ==
    access_scanned(o, address, callback, new_position, lookup, read,
        stash_access(read.blocks, address, new_position, callback))

\* access_looked_up with the path of the new position read into the stash
access_looked_up_reads_new_position(o, address, callback, new_position, lookup) ==
    IF ~lookup.ok
    THEN [o |-> o,
          call |-> [looked_up(o, address, new_position) EXCEPT
                       !.status = "AddressOutOfBoundsError"]]
    ELSE IF ~is_leaf(lookup.position, o.height)
    THEN [o |-> [o EXCEPT !.position_map = lookup.pm],
          call |-> [looked_up(o, address, new_position) EXCEPT
                       !.status = "Panic", !.position = lookup.position]]
    ELSE access_path_read(o, address, callback, new_position, lookup,
             read_from_path(o.blocks, o.path_size, o.physical_memory,
                            new_position))

\* PathOram::access once the position map has answered: the path of the
\* old position is read into the stash
access_looked_up(o, address, callback, new_position, lookup) ==
    IF ~lookup.ok
    THEN [o |-> o,
          call |-> [looked_up(o, address, new_position) EXCEPT
                       !.status = "AddressOutOfBoundsError"]]
    ELSE IF ~is_leaf(lookup.position, o.height)
    THEN [o |-> [o EXCEPT !.position_map = lookup.pm],
          call |-> [looked_up(o, address, new_position) EXCEPT
                       !.status = "Panic", !.position = lookup.position]]
    ELSE access_path_read(o, address, callback, new_position, lookup,
             read_from_path(o.blocks, o.path_size, o.physical_memory,
                            lookup.position))

\* access_in_bounds with the position map read and left as it is
access_in_bounds_map_not_updated(o, address, callback, new_position) ==
    access_looked_up(o, address, callback, new_position,
        [position_map_write(o.position_map, address, new_position)
            EXCEPT !.pm = o.position_map])

\* PathOram::access past its bounds check, with the leaf that random_leaf
\* draws given as `new_position`.  `call` records what the call did: its
\* status and returned value, callback(returned value), how many leaves it
\* drew, how many position-map lookups it made, the old position and the
\* bucket indices it read and wrote, in order; the steps it went through
\* with their arguments, the stash indices they visited, the length of the
\* stash when the call began and what write_to_path computed.
access_in_bounds(o, address, callback, new_position) ==
    access_looked_up(o, address, callback, new_position,
        position_map_write(o.position_map, address, new_position))

\* access with the leaf drawn before the bounds check
access_draws_before_check(o, address, callback, new_position) ==
    IF address_out_of_bounds(address, capacity_of(o))
    THEN [o |-> o,
          call |-> [NoCall EXCEPT !.address = address, !.draws = 1,
                                  !.status = "AddressOutOfBoundsError"]]
    ELSE access_in_bounds(o, address, callback, new_position)

\* PathOram::access
access(o, address, callback, new_position) ==
    IF address_out_of_bounds(address, capacity_of(o))
    THEN [o |-> o,
          call |-> [NoCall EXCEPT !.address = address,
                                  !.status = "AddressOutOfBoundsError"]]
    ELSE access_in_bounds(o, address, callback, new_position)

----------------------------------------------------------------------------
(* The program: one PathOram is constructed and then used through access,  *)
(* read and write.                                                          *)

oram == [physical_memory |-> physical_memory, blocks |-> blocks,
         path_size |-> path_size, position_map |-> position_map,
         height |-> height]

Init ==
    /\ new_result = "None"
    /\ block_capacity = 0
    /\ height = 0
    /\ physical_memory = <<>>
    /\ blocks = <<>>
    /\ path_size = 0
    /\ position_map = <<>>
    /\ last = NoCall
    /\ mirror = <<>>
    /\ accesses = 0

\* Oram::new(capacity, rng)
New(capacity) ==
    /\ new_result = "None"
    /\ block_capacity' = capacity
    /\ IF invalid_configuration(capacity)
       THEN /\ new_result' = "InvalidConfigurationError"
            /\ UNCHANGED <<height, physical_memory, blocks, path_size,
                           position_map, last, mirror, accesses>>
       ELSE \E permutation \in random_permutations_of_0_through_n_exclusive(capacity) :
                LET o == new(capacity, permutation)
                IN  /\ new_result' = "Ok"
                    /\ height' = o.height
                    /\ physical_memory' = o.physical_memory
                    /\ blocks' = o.blocks
                    /\ path_size' = o.path_size
                    /\ position_map' = o.position_map
                    /\ mirror' = [a \in 0..(capacity - 1) |-> default]
                    /\ UNCHANGED <<last, accesses>>

\* the effect on the program's state of a call of access made through the
\* method `op` of the Oram trait
Call(op, address, callback, new_position) ==
    \E r \in {access(oram, address, callback, new_position)} :
        /\ physical_memory' = r.o.physical_memory
        /\ blocks' = r.o.blocks
        /\ path_size' = r.o.path_size
        /\ position_map' = r.o.position_map
        /\ height' = r.o.height
        /\ last' = [r.call EXCEPT !.op = op]
        /\ mirror' = IF r.call.status = "Ok" /\ address \in DOMAIN mirror
                     THEN [mirror EXCEPT ![address] = callback[@]]
                     ELSE mirror
        /\ accesses' = accesses + 1
        /\ UNCHANGED <<new_result, block_capacity>>

\* a constructed ORAM that no failed assertion has torn down
Usable == new_result = "Ok" /\ last.status # "Panic" /\ accesses < MaxAccesses

Addresses == 0..(block_capacity + 1)

\* Oram::access(index, callback, rng)
Access(address, new_position) ==
    /\ Usable
    /\ Call("access", address, update_callback, new_position)

\* Oram::read(index, rng)
Read(address, new_position) ==
    /\ Usable
    /\ Call("read", address, identity_callback, new_position)

\* Oram::write(index, new_value, rng)
Write(address, new_value, new_position) ==
    /\ Usable
    /\ Call("write", address, write_callback(new_value), new_position)

Next ==
    \/ \E capacity \in 0..MaxCapacity : New(capacity)
    \/ \E address \in Addresses, new_position \in Leaves(height) :
           Access(address, new_position)
    \/ \E address \in Addresses, new_position \in Leaves(height) :
           Read(address, new_position)
    \/ \E address \in Addresses, new_value \in Values, new_position \in Leaves(height) :
           Write(address, new_value, new_position)

Spec == Init /\ [][Next]_vars

----------------------------------------------------------------------------
(* The same program driven into stash overflow: a PathOram over a tree of   *)
(* MaxOverflowHeight + 1 levels is read at its lowest addresses and at the  *)
(* address equal to its capacity, every drawn leaf being the first or the   *)
(* last one, so that the blocks drawn to the last leaf pile up above the    *)
(* paths that are read.                                                     *)

MaxOverflowHeight == 2
MaxOverflowAddress == 3
MaxOverflowAccesses == 4

OverflowCapacity == pow2(MaxOverflowHeight + 1)
OverflowAddresses == (0..MaxOverflowAddress) \cup {block_capacity}
OverflowLeaves == {pow2(height), pow2(height + 1) - 1}

\* Oram::new(OverflowCapacity, rng)
NewOverflow ==
    New(OverflowCapacity)

\* Oram::read(index, rng)
ReadOverflow(address, new_position) ==
    /\ new_result = "Ok"
    /\ last.status # "Panic"
    /\ accesses < MaxOverflowAccesses
    /\ Call("read", address, identity_callback, new_position)

OverflowNext ==
    \/ NewOverflow
    \/ \E address \in OverflowAddresses, new_position \in OverflowLeaves :
           ReadOverflow(address, new_position)

OverflowSpec == Init /\ [][OverflowNext]_vars

----------------------------------------------------------------------------
(* What an observer of the whole state sees *)

\* the real blocks held by the tree buckets, as <<node, slot>>
TreeSlots ==
    {ns \in (DOMAIN physical_memory) \X (1..Z) :
        ~ct_is_dummy(physical_memory[ns[1]][ns[2]])}

\* the real blocks held by the stash, as slot numbers (from 1)
StashSlots == {i \in 1..Len(blocks) : ~ct_is_dummy(blocks[i])}

\* the real blocks held by the stash beyond the path_size slots that
\* receive the path, the ones ObliviousStash::occupancy counts
OverflowSlots == {i \in StashSlots : i > path_size}

TreeBlock(ns) == physical_memory[ns[1]][ns[2]]

\* the tree slots and the overflow slots of the stash holding a block with
\* address a
TreeSlotsOf(a) == {ns \in TreeSlots : TreeBlock(ns).address = a}
OverflowSlotsOf(a) == {i \in OverflowSlots : blocks[i].address = a}

\* the values stored at address a by the buckets `memory` and the stash
\* `stash_blocks`: those of the real blocks with address a in the buckets
\* and in the stash slots beyond the first p_size
StoredValuesIn(memory, stash_blocks, p_size, a) ==
    {memory[ns[1]][ns[2]].value :
        ns \in {p \in (DOMAIN memory) \X (1..Z) : memory[p[1]][p[2]].address = a}}
        \cup {stash_blocks[i].value :
                 i \in {j \in (p_size + 1)..Len(stash_blocks) :
                            stash_blocks[j].address = a}}

\* the values stored at address a
StoredValues(a) == StoredValuesIn(physical_memory, blocks, path_size, a)

\* the last transition was a call of access, read or write
Called == accesses' = accesses + 1

\* the logical addresses [0, C)
InRange == 0..(block_capacity - 1)

\* the nodes on the path from the root to `leaf`
PathOf(leaf) == {leaf \div (2 ^ k) : k \in 0..height}

\* the last transition was a successful call on an address in [0, C)
CalledInRange == Called /\ last'.status = "Ok" /\ last'.address \in InRange

----------------------------------------------------------------------------
(* The claims *)

\* C1: a read, write or access of an address in [0, C) succeeds and returns
\* what a plain array of C cells, initialised to default and updated by the
\* same calls, holds at that address.
C1_ArrayEquivalence ==
    [][(Called /\ last'.address \in InRange)
          => /\ last'.status = "Ok"
             /\ last'.value = mirror[last'.address]]_vars

\* a read returns a written value while a second address holds one as well
C1_Witness ==
    /\ last.op = "read"
    /\ last.status = "Ok"
    /\ last.address \in InRange
    /\ last.value # default
    /\ \E b \in InRange : b # last.address /\ mirror[b] # default

\* C2: a successful access(a, f) with a in [0, C) returns the value v stored
\* at a before the call and leaves f(v) stored at a, the value stored at
\* every other address being unchanged; read leaves v, write leaves the
\* value it was given.
C2_AccessReturnsOldStoresNew ==
    [][CalledInRange
          => /\ StoredValues(last'.address) = {last'.value}
             /\ StoredValuesIn(physical_memory', blocks', path_size', last'.address)
                    = {last'.written}
             /\ \A b \in InRange \ {last'.address} :
                    StoredValues(b)' = StoredValues(b)
             /\ last'.op = "read" => last'.written = last'.value
             /\ last'.op = "access" => last'.written = update_callback[last'.value]
             /\ last'.op = "write" => last'.written = mirror'[last'.address]]_vars

\* a write returns a value that an earlier call left and replaces it
C2_Witness ==
    /\ last.op = "write"
    /\ last.status = "Ok"
    /\ last.address \in InRange
    /\ last.value # default
    /\ last.written # last.value

\* C3: an access with an address >= C returns AddressOutOfBoundsError
\* without a position-map lookup.
C3_OutOfBoundsRejected ==
    [][(Called /\ last'.address >= block_capacity)
          => /\ last'.status = "AddressOutOfBoundsError"
             /\ last'.pm_lookups = 0]_vars

\* C4: new(C) returns InvalidConfigurationError exactly when C is no power
\* of two or C < 2; new(2) succeeds with height 0 and the root, node 1, as
\* its only leaf.
C4_NewRejectsExactlyInvalid ==
    /\ new_result # "None"
         => (new_result = "InvalidConfigurationError"
               <=> \/ ~\E k \in 0..MaxCapacity : block_capacity = 2 ^ k
                   \/ block_capacity < 2)
    /\ (new_result = "Ok" /\ block_capacity = 2)
         => /\ height = 0
            /\ DOMAIN physical_memory = {0, 1}
            /\ \A ns \in TreeSlots : ns[1] = 1 /\ TreeBlock(ns).position = 1

\* the ORAM of capacity 2 was constructed and has served a call
C4_Witness ==
    /\ new_result = "Ok"
    /\ block_capacity = 2
    /\ last.status = "Ok"

\* C5: an access rejected by the bounds check leaves the buckets, the stash
\* and the position map as they were and draws no leaf.
C5_RejectedAccessChangesNothing ==
    [][(Called /\ last'.status = "AddressOutOfBoundsError" /\ last'.pm_lookups = 0)
          => /\ physical_memory' = physical_memory
             /\ blocks' = blocks
             /\ position_map' = position_map
             /\ last'.draws = 0]_vars

\* an access is rejected by the bounds check after a write went through
C5_Witness ==
    /\ last.status = "AddressOutOfBoundsError"
    /\ last.pm_lookups = 0
    /\ \E a \in InRange : mirror[a] # default

\* C6: the bucket of every real block of the tree is a node on the path
\* from the root to the leaf in the block's position field.
C6_PathInvariant ==
    new_result = "Ok"
        => \A ns \in TreeSlots : ns[1] \in PathOf(TreeBlock(ns).position)

\* after a call, the root of a tree of height 1 holds a real block
C6_Witness ==
    /\ last.status = "Ok"
    /\ height = 1
    /\ \E ns \in TreeSlots : ns[1] = 1

\* C7: for every address a in [0, C), exactly one real block with address a
\* exists in the tree buckets and the stash slots together.
C7_ExactlyOneBlockPerAddress ==
    new_result = "Ok"
        => \A a \in InRange :
               Cardinality(TreeSlotsOf(a))
                   + Cardinality({i \in StashSlots : blocks[i].address = a}) = 1

\* C8: for every address a in [0, C) a real block with address a exists, and
\* the position field of every real block with address a is the position
\* map's entry for a.
C8_PositionMapAgrees ==
    new_result = "Ok"
        => \A a \in InRange :
               /\ TreeSlotsOf(a) \cup OverflowSlotsOf(a) # {}
               /\ \A ns \in TreeSlotsOf(a) :
                      TreeBlock(ns).position = position_map[a]
               /\ \A i \in StashSlots :
                      blocks[i].address = a => blocks[i].position = position_map[a]

\* a call has moved its block from one leaf to the other
C8_Witness ==
    /\ last.status = "Ok"
    /\ last.address \in InRange
    /\ position_map[last.address] # last.position

\* C9: the number of real blocks in the tree buckets plus
\* stash.occupancy() is C.
C9_ConstantOccupancy ==
    new_result = "Ok"
        => Cardinality(TreeSlots) + occupancy(blocks, path_size) = block_capacity

\* C10: a successful access reads h+1 buckets and writes h+1 buckets, and
\* both are the h+1 nodes on the path from the root to the leaf that the
\* position map held for the address.
C10_PathReadAndWritten ==
    [][(Called /\ last'.status = "Ok")
          => /\ last'.position = position_map[last'.address]
             /\ Len(last'.reads) = height + 1
             /\ Len(last'.writes) = height + 1
             /\ {last'.reads[i] : i \in 1..Len(last'.reads)} = PathOf(last'.position)
             /\ {last'.writes[i] : i \in 1..Len(last'.writes)} = PathOf(last'.position)
             /\ Cardinality(PathOf(last'.position)) = height + 1]_vars

\* a call on a tree of height 1 read the leaf of its address and the root
C10_Witness ==
    /\ last.status = "Ok"
    /\ height = 1
    /\ last.reads = <<last.position, 1>>
    /\ last.writes = <<1, last.position>>

----------------------------------------------------------------------------
(* What an observer of the memory accesses expects of a call, given only   *)
(* the length n of the stash when the call begins and the leaf it is       *)
(* served from.                                                            *)

\* the sequence a, a + 1, ..., b
Upto(a, b) == [i \in 1..(b - a + 1) |-> a + i - 1] \o <<>>

Reverse(s) == [i \in 1..Len(s) |-> s[Len(s) + 1 - i]] \o <<>>

\* the nodes from `node` up to the root
RECURSIVE AncestorsFromLeaf(_)
AncestorsFromLeaf(node) ==
    IF node < 1 THEN <<>> ELSE <<node>> \o AncestorsFromLeaf(node \div 2)

\* the stash indices of the buckets of levels `level`, ..., 0
RECURSIVE PathSlotsDeepestFirst(_)
PathSlotsDeepestFirst(level) ==
    IF level < 0 THEN <<>>
    ELSE Upto(Z * level, Z * level + Z - 1) \o PathSlotsDeepestFirst(level - 1)

\* the stash indices visited by an access that does not grow the stash
ExpectedSlots(n, leaf) ==
    LET h == Len(AncestorsFromLeaf(leaf)) - 1
    IN  PathSlotsDeepestFirst(h)                       \* read_from_path
            \o Upto(0, n - 1) \o <<n - 1>>             \* stash.access
            \o Upto(0, n - 1)                          \* write_to_path, stage 1
            \o Upto(0, n - 2)                          \* stage 2, one pass
            \o Upto(0, Z * (h + 1) - 1)                \* stage 3

\* C11: the bucket indices read and written and the stash slots visited by
\* a successful access whose eviction does not grow the stash are a function
\* of the stash length at the start of the access and of the old position
\* alone, so two accesses that agree on these two have identical traces
\* whatever their addresses, callbacks and block contents are.
C11_TraceDependsOnLengthAndLeafOnly ==
    [][(Called /\ last'.status = "Ok" /\ last'.eviction.passes = 1)
           => /\ last'.reads = AncestorsFromLeaf(last'.position)
              /\ last'.writes = Reverse(AncestorsFromLeaf(last'.position))
              /\ last'.slots = ExpectedSlots(last'.stash_len, last'.position)]_vars

\* a write that found its block in the first slot of a stash of more than
\* one level and changed its value
C11_Witness ==
    /\ last.status = "Ok"
    /\ last.op = "write"
    /\ last.written # default
    /\ height >= 1
    /\ last.eviction.passes = 1
    /\ last.eviction.scanned[1].address = last.address
    /\ last.slots = ExpectedSlots(last.stash_len, last.position)

----------------------------------------------------------------------------
(* What the eviction of the last call started from *)

\* the stash slots that stage 1 of the last eviction assigned to a level
Stage1Assigned(call) ==
    {i \in DOMAIN call.eviction.stage1_assignments :
        call.eviction.stage1_assignments[i] \in 0..height}

\* the dummies that the first fill pass could use: all but the last slot
FreeFillers(call) ==
    {i \in 1..(Len(call.eviction.scanned) - 1) : ct_is_dummy(call.eviction.scanned[i])}

\* the first fill pass cannot fill every level of the path
StashOverflowed(call) ==
    Cardinality(FreeFillers(call))
        < Z * (height + 1) - Cardinality(Stage1Assigned(call))

\* the call went through write_to_path
Evicted(call) == Len(call.steps) = 4

\* C12: a stash overflow is not an error.  An access whose first fill pass
\* cannot fill every level grows the stash by STASH_GROWTH_INCREMENT dummies
\* for each further pass it makes, ends with every level full and returns Ok
\* with the value of the reference array; an access whose first pass
\* suffices leaves the length alone; no call ever shortens the stash.
C12_OverflowGrowsStashAndSucceeds ==
    [][Called =>
          /\ Len(blocks') >= Len(blocks)
          /\ Evicted(last') =>
                /\ last'.status = "Ok"
                /\ last'.address \in InRange => last'.value = mirror[last'.address]
                /\ (last'.eviction.passes > 1) = StashOverflowed(last')
                /\ Len(blocks') = Len(blocks)
                       + STASH_GROWTH_INCREMENT * (last'.eviction.passes - 1)
                /\ \A l \in 0..height : last'.eviction.level_counts[l + 1] = Z]_vars

\* an access overflowed the stash and left it STASH_GROWTH_INCREMENT longer
C12_Witness ==
    /\ last.status = "Ok"
    /\ StashOverflowed(last)
    /\ last.eviction.passes = 2
    /\ Len(blocks) = last.stash_len + STASH_GROWTH_INCREMENT

\* the assertion of ObliviousStash::access fails in the access of `address`
\* made in the current state
AssertionFails(address) ==
    LET position == position_map[address]
        read == read_from_path(blocks, path_size, physical_memory, position)
    IN  stash_access(read.blocks, address, position, identity_callback).panicked

\* C14: in every state of a constructed ORAM the last stash slot holds a
\* dummy when stash.access inspects it, so that the assertion
\* last_block.ct_is_dummy() holds in the access of any address in [0, C).
C14_LastSlotDummyWhenInspected ==
    new_result = "Ok" =>
        /\ ct_is_dummy(blocks[Len(blocks)])
        /\ \A address \in InRange : ~AssertionFails(address)

\* C15: a successful access makes the position-map write, read_from_path,
\* stash.access and write_to_path once each, in this order; the two path
\* operations get the leaf the position map held for the address before the
\* call, and stash.access gets the leaf the position map holds after it.
C15_StepsOnceInOrder ==
    [][(Called /\ last'.status = "Ok")
           => last'.steps =
                  << <<"position_map.write", last'.address,
                       position_map'[last'.address]>>,
                     <<"read_from_path", position_map[last'.address]>>,
                     <<"stash.access", last'.address,
                       position_map'[last'.address]>>,
                     <<"write_to_path", position_map[last'.address]>> >>]_vars

\* a successful access that moved its block to another leaf
C15_Witness ==
    /\ last.status = "Ok"
    /\ Len(last.steps) = 4
    /\ last.new_position # last.position
    /\ last.steps[2][2] = last.position
    /\ last.steps[4][2] = last.position
    /\ position_map[last.address] = last.new_position

\* C16: a successful access leaves every bucket that is not on the path from
\* the root to old_pos as it was, bucket 0 included; what it may change are
\* the height + 1 buckets of that path.
C16_OnlyPathBucketsChange ==
    [][(Called /\ last'.status = "Ok")
           => /\ DOMAIN physical_memory' = DOMAIN physical_memory
              /\ Cardinality(PathOf(position_map[last'.address])) = height + 1
              /\ \A n \in DOMAIN physical_memory :
                     n \notin PathOf(position_map[last'.address])
                         => physical_memory'[n] = physical_memory[n]]_vars

\* an access in a tree of two levels emptied a slot of the leaf it was
\* served from while the other leaf holds real blocks
C16_Witness ==
    /\ last.status = "Ok"
    /\ height >= 1
    /\ \E slot \in 1..2 : ct_is_dummy(physical_memory[last.position][slot])
    /\ \E n \in Leaves(height) \ {last.position} :
           ~ct_is_dummy(physical_memory[n][1])

\* PathOram::new has succeeded and no access was made yet
Fresh == new_result = "Ok" /\ accesses = 0

\* C17: right after PathOram::new(C) succeeds, every leaf bucket L holds two
\* real blocks, in its slots 0 and 1, with position L and the default value,
\* and dummies in its other slots; every other bucket holds dummies only; the
\* addresses of the real blocks are a permutation of [0, C); the stash is all
\* dummies; and the position map sends each address to the leaf whose bucket
\* holds its block, which is 2^h + (slot index of the address) / 2.
C17_InitialLayout ==
    Fresh =>
        /\ \A L \in Leaves(height) : \A slot \in 1..Z :
               IF slot <= 2
               THEN /\ ~ct_is_dummy(physical_memory[L][slot])
                    /\ physical_memory[L][slot].position = L
                    /\ physical_memory[L][slot].value = default
               ELSE physical_memory[L][slot] = dummy
        /\ \A n \in DOMAIN physical_memory \ Leaves(height) :
               \A slot \in 1..Z : physical_memory[n][slot] = dummy
        /\ DOMAIN physical_memory = 0..(block_capacity - 1)
        /\ Cardinality(TreeSlots) = block_capacity
        /\ \A a \in InRange : Cardinality(TreeSlotsOf(a)) = 1
        /\ Len(blocks) = Z * (height + 1) + OVERFLOW_SIZE
        /\ \A i \in 1..Len(blocks) : blocks[i] = dummy
        /\ \A ns \in TreeSlots :
               position_map[TreeBlock(ns).address]
                   = pow2(height) + ((2 * (ns[1] - pow2(height)) + (ns[2] - 1)) \div 2)
        /\ \A ns \in TreeSlots : position_map[TreeBlock(ns).address] = ns[1]

\* a fresh ORAM of two levels whose permutation is not the identity
C17_Witness ==
    /\ Fresh
    /\ height >= 1
    /\ physical_memory[pow2(height)][1].address # 0
    /\ position_map[0] = pow2(height + 1) - 1

----------------------------------------------------------------------------
(* Stage 1 of the last eviction, read off the stash it started from *)

\* the block in slot i can live at level d of the path to `leaf`
OnPathAt(call, i, d) ==
    call.eviction.scanned[i].position \div (2 ^ (height - d))
        = call.position \div (2 ^ (height - d))

\* the slots before slot i that stage 1 assigned to level d
AssignedBefore(call, i, d) ==
    {j \in 1..(i - 1) : call.eviction.stage1_assignments[j] = d}

\* level d takes the block of slot i when stage 1 reaches slot i
HasRoom(call, i, d) ==
    OnPathAt(call, i, d) /\ Cardinality(AssignedBefore(call, i, d)) < Z

\* C18: stage 1 of write_to_path, going through the stash slots in index
\* order, gives each real block the deepest level of the path that lies on
\* the path of the block's position and has fewer than Z blocks assigned
\* so far, or the overflow sentinel MAX - 1 when there is no such level;
\* dummies keep the unassigned sentinel MAX; the counter of each level is
\* the number of blocks assigned to it and is at most Z.
C18_Stage1DeepestLevelWithRoom ==
    [][(Called /\ last'.status = "Ok")
           => LET call == last'
                  stash == call.eviction.scanned
                  assignment == call.eviction.stage1_assignments
                  counts == call.eviction.stage1_counts
              IN  /\ Len(assignment) = Len(stash)
                  /\ \A i \in 1..Len(stash) :
                         IF ct_is_dummy(stash[i])
                         THEN assignment[i] = TreeIndex_MAX
                         ELSE IF \E d \in 0..height : HasRoom(call, i, d)
                         THEN /\ assignment[i] \in 0..height
                              /\ HasRoom(call, i, assignment[i])
                              /\ \A d \in 0..height :
                                     HasRoom(call, i, d) => d <= assignment[i]
                         ELSE assignment[i] = TreeIndex_MAX - 1
                  /\ \A d \in 0..height :
                         /\ counts[d + 1] <= Z
                         /\ counts[d + 1] =
                                Cardinality({i \in 1..Len(stash) : assignment[i] = d})]_vars

\* an eviction in which one real block went to the overflow because the
\* root, the only level it shares with the path, was full; another one went to
\* the leaf, the deepest of the levels that had room for it; and a dummy
\* stayed unassigned
C18_Witness ==
    /\ last.status = "Ok"
    /\ height >= 1
    /\ \E i \in 1..Len(last.eviction.scanned) :
           /\ last.eviction.stage1_assignments[i] = TreeIndex_MAX - 1
           /\ ~OnPathAt(last, i, 1)
           /\ Cardinality(AssignedBefore(last, i, 0)) = Z
    /\ \E i \in 1..Len(last.eviction.scanned) :
           /\ last.eviction.stage1_assignments[i] = height
           /\ HasRoom(last, i, height - 1)
    /\ \E i \in 1..Len(last.eviction.scanned) :
           /\ ct_is_dummy(last.eviction.scanned[i])
           /\ last.eviction.stage1_assignments[i] = TreeIndex_MAX

----------------------------------------------------------------------------
(* Stage 2 of the last eviction *)

\* the slots that carry level d when the dummy fill ends
AssignedTo(call, d) ==
    {i \in 1..Len(call.eviction.level_assignments) :
        call.eviction.level_assignments[i] = d}

\* C19: when the dummy fill ends, every level of the path has exactly Z
\* stash slots assigned to it, which is what its counter says: the blocks
\* that stage 1 assigned keep their level, and every dummy carries one level
\* or none; the last slot of the stash, if a dummy, carries none.  After
\* write_to_path each bucket on the path has Z slots, the real blocks
\* assigned to its level and dummies.
C19_EveryLevelGetsZSlots ==
    [][(Called /\ last'.status = "Ok")
           => LET call == last'
                  stash == call.eviction.filled
                  assignment == call.eviction.level_assignments
                  stage1 == call.eviction.stage1_assignments
                  n == Len(stash)
              IN  /\ Len(assignment) = n
                  /\ \A d \in 0..height :
                         /\ Cardinality(AssignedTo(call, d)) = Z
                         /\ call.eviction.level_counts[d + 1] = Z
                  /\ \A i \in 1..Len(stage1) :
                         ~ct_is_dummy(stash[i]) => assignment[i] = stage1[i]
                  /\ \A i \in 1..n :
                         ct_is_dummy(stash[i])
                             => assignment[i] \in (0..height) \cup {TreeIndex_MAX}
                  /\ ct_is_dummy(stash[n]) => assignment[n] = TreeIndex_MAX
                  /\ \A d \in 0..height :
                         LET bucket == physical_memory'[call.writes[d + 1]]
                         IN  /\ DOMAIN bucket = 1..Z
                             /\ Cardinality({slot \in 1..Z : ~ct_is_dummy(bucket[slot])})
                                    = Cardinality({i \in AssignedTo(call, d) :
                                                      ~ct_is_dummy(stash[i])})]_vars

\* an eviction that grew the stash: the second pass used the slot that was
\* the last one before the growth as a filler and left the new last slot
\* alone
C19_Witness ==
    /\ last.status = "Ok"
    /\ last.eviction.passes = 2
    /\ last.eviction.level_assignments[last.stash_len] \in 0..height
    /\ ct_is_dummy(last.eviction.filled[last.stash_len])
    /\ last.eviction.level_assignments[Len(last.eviction.filled)] = TreeIndex_MAX
    /\ \A d \in 0..height : Cardinality(AssignedTo(last, d)) = Z

----------------------------------------------------------------------------
(* Stage 3 of the last eviction *)

\* how many of the slots `slots` of the stash `stash` hold the block b
Copies(stash, slots, b) == Cardinality({i \in slots : stash[i] = b})

\* the slots `to` of the stash `after` hold exactly the blocks that the
\* slots `from` of the stash `before` held
SameBlocks(after, to, before, from) ==
    \A b \in {after[i] : i \in to} \cup {before[i] : i \in from} :
        Copies(after, to, b) = Copies(before, from, b)

\* the slots that stage 2 left with a sentinel
Unplaced(call) ==
    {i \in 1..Len(call.eviction.level_assignments) :
        call.eviction.level_assignments[i] >= TreeIndex_MAX - 1}

\* C20: after the sort by assignment key, for every depth d of the path the
\* stash slots [Z*d, Z*d + Z) carry key d and hold exactly the blocks that
\* were assigned level d, and the bucket at the depth-d node of the path to
\* the leaf holds these slots in this order; the slots from Z*(h+1) on hold
\* exactly the blocks left with a sentinel, real ones with the overflow
\* sentinel and dummies with the unassigned one, and stay in the stash.
C20_SortedSlotsGoToTheirBuckets ==
    [][(Called /\ last'.status = "Ok")
           => LET call == last'
                  before == call.eviction.filled
                  keys == call.eviction.sorted_keys
                  P == Z * (height + 1)
              IN  /\ Len(blocks') = Len(before)
                  /\ Len(keys) = Len(before)
                  /\ \A d \in 0..height :
                         LET range == (Z * d + 1)..(Z * d + Z)
                             node == call.position \div (2 ^ (height - d))
                         IN  /\ \A k \in range : keys[k] = d
                             /\ SameBlocks(blocks', range, before, AssignedTo(call, d))
                             /\ \A slot \in 1..Z :
                                    physical_memory'[node][slot] = blocks'[Z * d + slot]
                  /\ \A k \in (P + 1)..Len(keys) :
                         \/ keys[k] = TreeIndex_MAX - 1 /\ ~ct_is_dummy(blocks'[k])
                         \/ keys[k] = TreeIndex_MAX /\ ct_is_dummy(blocks'[k])
                  /\ SameBlocks(blocks', (P + 1)..Len(keys), before, Unplaced(call))]_vars

\* an eviction that left a real block with the overflow sentinel and a dummy
\* with the unassigned one behind the path slots, and wrote a bucket that
\* holds a real block next to a filler
C20_Witness ==
    /\ last.status = "Ok"
    /\ \E k \in (path_size + 1)..Len(blocks) :
           last.eviction.sorted_keys[k] = TreeIndex_MAX - 1 /\ ~ct_is_dummy(blocks[k])
    /\ \E k \in (path_size + 1)..Len(blocks) :
           last.eviction.sorted_keys[k] = TreeIndex_MAX /\ ct_is_dummy(blocks[k])
    /\ \E n \in PathOf(last.position) :
           /\ physical_memory[n][1] = blocks[Z * ct_depth(n) + 1]
           /\ \E slot \in 1..Z : ~ct_is_dummy(physical_memory[n][slot])
           /\ \E slot \in 1..Z : ct_is_dummy(physical_memory[n][slot])

----------------------------------------------------------------------------
(* What write_to_path leaves in the path slots of the stash *)

\* C21: outside of an access no real block is both in a tree bucket and in
\* a stash slot: write_to_path has replaced by a dummy every block of the
\* stash that it wrote into a bucket of the path.
C21_WrittenBlocksLeaveTheStash ==
    new_result = "Ok" =>
        \A i \in StashSlots : \A ns \in TreeSlots : TreeBlock(ns) # blocks[i]

----------------------------------------------------------------------------
(* stash.access as a function of the stash it is given *)

\* a step of the program in which stash.access was called
Scans == accesses' = accesses + 1 /\ last'.status \in {"Ok", "Panic"}

\* the stash that stash.access is given in such a step: the stash of the
\* state before, with the path of the old position read into it
StashGiven ==
    read_from_path(blocks, path_size, physical_memory, last'.position).blocks

\* the stash that stash.access leaves in such a step
StashLeft == IF last'.status = "Ok" THEN last'.eviction.scanned ELSE blocks'

\* the callbacks that the method `op` of the Oram trait may pass to access
CallbacksOf(op) ==
    IF op = "access" THEN {update_callback}
    ELSE IF op = "read" THEN {identity_callback}
    ELSE {write_callback(x) : x \in Values}

\* the slots of the stash `stash_blocks` holding a block of address `address`
SlotsOf(stash_blocks, address) ==
    {i \in DOMAIN stash_blocks : stash_blocks[i].address = address}

\* C22: when the stash given to stash.access(addr, new_pos, f) holds a block
\* of address addr, the call returns the value v of that block, leaves in
\* its slot the block {addr, new_pos, f(v)}, and leaves every other slot,
\* the last one included, and the length of the stash as they were.
C22_AccessOnHit ==
    [][(Scans /\ last'.status = "Ok" /\ SlotsOf(StashGiven, last'.address) # {}) =>
          /\ Len(StashLeft) = Len(StashGiven)
          /\ \A i \in SlotsOf(StashGiven, last'.address) :
                /\ last'.value = StashGiven[i].value
                /\ \E f \in CallbacksOf(last'.op) :
                      StashLeft[i] = [address |-> last'.address,
                                      position |-> last'.new_position,
                                      value |-> f[StashGiven[i].value]]
          /\ \A j \in DOMAIN StashGiven \ SlotsOf(StashGiven, last'.address) :
                StashLeft[j] = StashGiven[j]
          /\ StashLeft[Len(StashLeft)] = StashGiven[Len(StashGiven)]]_vars

\* an access that found its block in a slot of the stash and changed both
\* its value and its position
C22_Witness ==
    /\ last.status = "Ok"
    /\ last.op = "access"
    /\ last.written # last.value
    /\ last.new_position # last.position
    /\ \E i \in 1..(Len(last.eviction.scanned) - 1) :
          last.eviction.scanned[i] = [address |-> last.address,
                                      position |-> last.new_position,
                                      value |-> last.written]

\* C23: when the stash given to stash.access(addr, new_pos, f) holds no
\* block of address addr, the call returns V::default(), leaves in the last
\* slot the real block {addr, new_pos, f(default)}, and leaves every other
\* slot as it was.
C23_AccessOnMiss ==
    [][(Scans /\ SlotsOf(StashGiven, last'.address) = {}) =>
          /\ last'.status = "Ok"
          /\ last'.value = default
          /\ Len(StashLeft) = Len(StashGiven)
          /\ \E f \in CallbacksOf(last'.op) :
                StashLeft[Len(StashLeft)] = [address |-> last'.address,
                                             position |-> last'.new_position,
                                             value |-> f[default]]
          /\ ~ct_is_dummy(StashLeft[Len(StashLeft)])
          /\ \A j \in 1..(Len(StashGiven) - 1) : StashLeft[j] = StashGiven[j]]_vars

\* an access that found no block of its address in the stash and left in
\* the last slot a block whose value is not the default
C23_Witness ==
    /\ last.status = "Ok"
    /\ last.op = "access"
    /\ last.value = default
    /\ last.written # default
    /\ SlotsOf(last.eviction.scanned, last.address) = {Len(last.eviction.scanned)}
    /\ last.eviction.scanned[Len(last.eviction.scanned)] =
          [address |-> last.address, position |-> last.new_position,
           value |-> last.written]

----------------------------------------------------------------------------
(* read_from_path as a function of the stash and the tree it is given *)

----------------------------------------------------------------------------
(* write_to_path run by itself, stage by stage, on a stash holding any      *)
(* number of real blocks.  `blocks` is the stash, `physical_memory` the     *)
(* tree and `last` the call in progress: the leaf it evicts to, the locals  *)
(* of the while loop and, as `eviction`, what the stages have computed;     *)
(* `accesses` counts the steps the call has made.                           *)

MaxFillHeight == 5
MaxFillPasses == 4

\* a stash for a tree of height h whose first k slots and last j slots hold
\* real blocks, of positions q1 and q2, the slots between them dummies; the
\* block of slot i has the address i and the values go round Values
FillStash(h, k, j, q1, q2) ==
    LET n == Z * (h + 1) + OVERFLOW_SIZE
    IN  [i \in 1..n |->
            IF i <= k
            THEN [value |-> (i - 1) % (MaxValue + 1), address |-> i - 1,
                  position |-> q1]
            ELSE IF i > n - j
            THEN [value |-> (i - 1) % (MaxValue + 1), address |-> i - 1,
                  position |-> q2]
            ELSE dummy] \o <<>>

\* the first and the last leaf of a tree of height h
OuterLeaves(h) == {pow2(h), pow2(h + 1) - 1}

WriteToPathInit ==
    \E h \in 1..MaxFillHeight :
    \E position \in OuterLeaves(h), q1 \in OuterLeaves(h), q2 \in OuterLeaves(h) :
    \E k \in 0..(Z * (h + 1) + OVERFLOW_SIZE) :
    \E j \in 0..(Z * (h + 1) + OVERFLOW_SIZE - k) :
        /\ new_result = "Ok"
        /\ block_capacity = pow2(h + 1)
        /\ height = h
        /\ physical_memory = [n \in 0..(pow2(h + 1) - 1) |-> [slot \in 1..Z |-> dummy]]
        /\ blocks = FillStash(h, k, j, q1, q2)
        /\ path_size = Z * (h + 1)
        /\ position_map = <<>>
        /\ mirror = <<>>
        /\ accesses = 0
        /\ last = [op |-> "write_to_path", status |-> "Called",
                   position |-> position,
                   stash_len |-> Len(FillStash(h, k, j, q1, q2)),
                   first_unassigned_block_index |-> 0,
                   exists_unfilled_levels |-> TRUE,
                   eviction |-> [NoEviction EXCEPT
                                    !.scanned = FillStash(h, k, j, q1, q2)]]

\* stage 1 of write_to_path
AssignRealBlocks ==
    /\ last.status = "Called"
    /\ \E s \in {assign_real_blocks(blocks, last.position, 1, Len(blocks),
                     [level_counts |-> copies(0, ct_depth(last.position) + 1),
                      level_assignments |-> copies(TreeIndex_MAX, Len(blocks))])} :
           last' = [last EXCEPT !.status = "Assigned",
                                !.eviction.stage1_assignments = s.level_assignments,
                                !.eviction.stage1_counts = s.level_counts,
                                !.eviction.level_assignments = s.level_assignments,
                                !.eviction.level_counts = s.level_counts]
    /\ accesses' = accesses + 1
    /\ UNCHANGED <<new_result, block_capacity, height, physical_memory, blocks,
                   path_size, position_map, mirror>>

\* stage 2 of write_to_path: the body of the while loop is executed once
FillPass ==
    /\ last.status = "Assigned"
    /\ last.exists_unfilled_levels
    /\ last.eviction.passes < MaxFillPasses
    /\ \E r \in {fill_iteration(blocks, ct_depth(last.position),
                     last.first_unassigned_block_index,
                     last.eviction.level_counts,
                     last.eviction.level_assignments)} :
           /\ blocks' = r.blocks
           /\ last' = [last EXCEPT
                  !.first_unassigned_block_index = r.first_unassigned_block_index,
                  !.exists_unfilled_levels = r.exists_unfilled_levels,
                  !.eviction.level_counts = r.level_counts,
                  !.eviction.level_assignments = r.level_assignments,
                  !.eviction.filled = r.blocks,
                  !.eviction.passes = @ + 1]
    /\ accesses' = accesses + 1
    /\ UNCHANGED <<new_result, block_capacity, height, physical_memory,
                   path_size, position_map, mirror>>

\* the while loop is left: the sort, stage 3 and the return of write_to_path
SortAndWrite ==
    /\ last.status = "Assigned"
    /\ ~last.exists_unfilled_levels
    /\ \E sorted \in {bitonic_sort_by_keys(blocks, last.eviction.level_assignments)} :
           /\ blocks' = sorted.items
           /\ physical_memory' = write_buckets(physical_memory, sorted.items,
                                               last.position)
           /\ last' = [last EXCEPT !.status = "Ok",
                                   !.eviction.sorted_keys = sorted.keys]
    /\ accesses' = accesses + 1
    /\ UNCHANGED <<new_result, block_capacity, height, path_size,
                   position_map, mirror>>

WriteToPathNext == AssignRealBlocks \/ FillPass \/ SortAndWrite

\* the call has not returned and has a step to make: the next stage or, in
\* the while loop, one of the MaxFillPasses executions of the body that are
\* followed
Running ==
    /\ last.status \in {"Called", "Assigned"}
    /\ (last.status = "Assigned" /\ last.exists_unfilled_levels)
           => last.eviction.passes < MaxFillPasses
    /\ accesses' = accesses + 1

\* write_to_path is sequential code: as long as it has not returned it
\* makes its next step
WriteToPathSpec ==
    WriteToPathInit /\ [][WriteToPathNext]_vars /\ WF_accesses(Running)

\* C25: write_to_path terminates from every stash state: whatever the number
\* of real blocks in the stash, the loop of the dummy fill is left after
\* finitely many growths of the stash with every level of the path full,
\* and the function returns.
C25_WriteToPathTerminates ==
    <>(/\ last.status = "Ok"
       /\ \A l \in 0..height : last.eviction.level_counts[l + 1] = Z)

\* a call on a stash holding real blocks only, none of which can live on the
\* path below the root, has returned after growing the stash twice
C25_Witness ==
    /\ last.op = "write_to_path"
    /\ last.status = "Ok"
    /\ last.eviction.passes = 3
    /\ Len(blocks) = last.stash_len + 2 * STASH_GROWTH_INCREMENT
    /\ \A i \in 1..last.stash_len : ~ct_is_dummy(last.eviction.scanned[i])

----------------------------------------------------------------------------
(* How often the body of the dummy-fill loop runs in an access *)

\* the slots of the path that the first fill pass of the call leaves without
\* a block: the Z*(h+1) slots less the real blocks stage 1 assigned and the
\* dummies the pass could use
LeftUnfilled(call) ==
    Z * (height + 1) - Cardinality(Stage1Assigned(call))
        - Cardinality(FreeFillers(call))

\* C26: in every write_to_path executed by an access, the body of the
\* dummy-fill loop runs exactly once, and the stash keeps its length, when
\* the first pass fills every level; it runs exactly twice, the stash
\* growing once by STASH_GROWTH_INCREMENT, when the stash overflows: the
\* first pass is then short of a single slot, so one growth suffices.
C26_FillLoopRunsOnceOrTwice ==
    [][(Called /\ Evicted(last')) =>
          /\ last'.eviction.passes \in {1, 2}
          /\ LeftUnfilled(last') <= 0 =>
                /\ last'.eviction.passes = 1
                /\ Len(last'.eviction.filled) = last'.stash_len
                /\ Len(blocks') = last'.stash_len
          /\ LeftUnfilled(last') > 0 =>
                /\ LeftUnfilled(last') = 1
                /\ last'.eviction.passes = 2
                /\ Len(last'.eviction.filled) = last'.stash_len + STASH_GROWTH_INCREMENT
                /\ Len(blocks') = last'.stash_len + STASH_GROWTH_INCREMENT]_vars

\* an access whose first fill pass was one dummy short, a real block being
\* left to the overflow, ran the loop body twice and grew the stash from
\* its initial length
C26_Witness ==
    /\ last.status = "Ok"
    /\ LeftUnfilled(last) = 1
    /\ last.eviction.passes = 2
    /\ last.stash_len = Z * (height + 1) + OVERFLOW_SIZE
    /\ Len(last.eviction.filled) = last.stash_len + STASH_GROWTH_INCREMENT
    /\ \E i \in 1..last.stash_len : last.eviction.level_assignments[i] = TreeIndex_MAX - 1

----------------------------------------------------------------------------
(* Positions are leaves *)

\* the leaves of the tree: the nodes 2^h, ..., 2^(h+1) - 1
TreeLeaves == (2 ^ height)..(2 ^ (height + 1) - 1)

\* the call stopped at the assertion position.is_leaf(height) of
\* PathOram::access, right after the position map answered
LeafAssertionFailed(call) == call.status = "Panic" /\ Len(call.steps) = 1

\* C27: the leaf an access draws and the old position the position map
\* returns to it are leaves of the tree, so the assertion
\* position.is_leaf(height) of PathOram::access never fails; the position
\* of every real block, in the tree or in the stash, and the position-map
\* entry of every address in [0, C) are leaves at all times.
C27_PositionsAreLeaves ==
    new_result = "Ok" =>
        /\ ~LeafAssertionFailed(last)
        /\ last.status \in {"Ok", "Panic"} =>
              /\ last.new_position \in TreeLeaves
              /\ last.position \in TreeLeaves
        /\ \A ns \in TreeSlots : TreeBlock(ns).position \in TreeLeaves
        /\ \A i \in StashSlots : blocks[i].position \in TreeLeaves
        /\ \A a \in InRange : position_map[a] \in TreeLeaves

\* on a tree of height 1 an access moved the block of the last address from
\* the last leaf to the first one
C27_Witness ==
    /\ height = 1
    /\ last.status = "Ok"
    /\ last.address = block_capacity - 1
    /\ last.position = 3
    /\ last.new_position = 2
    /\ position_map[last.address] = 2
    /\ \E ns \in TreeSlotsOf(last.address) : TreeBlock(ns).position = 2

----------------------------------------------------------------------------
(* The padded entries of the position map *)

\* the entries of the position map behind the last address: the padding of
\* the last position block
PaddedEntries == (DOMAIN position_map) \ InRange

\* C28: the padded entries of the position map are never read or rewritten:
\* every lookup that an access makes uses an index in [0, C), and no call
\* changes a padded entry.
C28_PaddedEntriesUntouched ==
    [][Called =>
          /\ last'.pm_lookups > 0 => last'.address \in InRange
          /\ \A a \in PaddedEntries : position_map'[a] = position_map[a]]_vars

----------------------------------------------------------------------------
(* BitonicStash::new (src/src/path_oram/stash.rs), the constructor of the   *)
(* fixed-size stash, called by itself.  `blocks` and `path_size` are the    *)
(* fields of the stash it returns, `new_result` is its outcome and `last`   *)
(* keeps the arguments of the call.                                         *)

MaxBitonicPathSize == 12
MaxBitonicOverflowSize == 8

\* bitonic_stash_new without the check of the number of slots
bitonic_stash_new_unchecked(p_size, overflow_size) ==
    LET num_stash_blocks == p_size + overflow_size
    IN  [result |-> "Ok",
         blocks |-> copies(dummy, num_stash_blocks),
         path_size |-> p_size]

\* BitonicStash::new
bitonic_stash_new(p_size, overflow_size) ==
    LET num_stash_blocks == p_size + overflow_size
    IN  IF ~is_power_of_two(num_stash_blocks)
        THEN [result |-> "InvalidConfigurationError", blocks |-> <<>>,
              path_size |-> 0]
        ELSE [result |-> "Ok",
              blocks |-> copies(dummy, num_stash_blocks),
              path_size |-> p_size]

\* a call of BitonicStash::new(p_size, overflow_size)
BitonicNew(p_size, overflow_size) ==
    /\ new_result = "None"
    /\ \E s \in {bitonic_stash_new(p_size, overflow_size)} :
           /\ new_result' = s.result
           /\ blocks' = s.blocks
           /\ path_size' = s.path_size
    /\ last' = [op |-> "BitonicStash::new", path_size |-> p_size,
                overflow_size |-> overflow_size]
    /\ UNCHANGED <<block_capacity, height, physical_memory, position_map,
                   mirror, accesses>>

BitonicNext ==
    \E p_size \in 0..MaxBitonicPathSize, overflow_size \in 0..MaxBitonicOverflowSize :
        BitonicNew(p_size, overflow_size)

BitonicSpec == Init /\ [][BitonicNext]_vars

\* n is one of 1, 2, 4, 8, ...
PowerOfTwo(n) == \E k \in 0..n : 2 ^ k = n

\* C29: BitonicStash::new(path_size, overflow_size) returns the error
\* InvalidConfigurationError and no stash when path_size + overflow_size is
\* not a power of two; otherwise it returns a stash of exactly
\* path_size + overflow_size slots, all of them dummies.
C29_BitonicStashNew ==
    last.op = "BitonicStash::new" =>
        IF PowerOfTwo(last.path_size + last.overflow_size)
        THEN /\ new_result = "Ok"
             /\ Len(blocks) = last.path_size + last.overflow_size
             /\ \A i \in 1..Len(blocks) : blocks[i] = dummy
             /\ path_size = last.path_size
        ELSE /\ new_result = "InvalidConfigurationError"
             /\ blocks = <<>>

\* BitonicStash::new(12, 4) has returned a stash of 16 dummies
C29_Witness ==
    /\ last.op = "BitonicStash::new"
    /\ last.path_size = 12
    /\ last.overflow_size = 4
    /\ new_result = "Ok"
    /\ Len(blocks) = 16
    /\ \A i \in 1..16 : ct_is_dummy(blocks[i])

----------------------------------------------------------------------------
(* What write_to_path does to the real blocks *)

\* the slots, as <<node, slot>>, of the buckets on the path that the call
\* wrote
WrittenSlots(call) == {call.position \div (2 ^ k) : k \in 0..height} \X (1..Z)

\* how many times the block b is found after the call: in the buckets
\* written and in the stash behind the path slots
FoundAfter(call, b) ==
    Cardinality({ns \in WrittenSlots(call) : TreeBlock(ns) = b})
        + Copies(blocks, (path_size + 1)..Len(blocks), b)

\* how many times the block b was in the stash given to write_to_path
HeldBefore(call, b) ==
    Copies(call.eviction.scanned, 1..Len(call.eviction.scanned), b)

\* the real blocks of the stash before the call, of the buckets written and
\* of the stash behind the path slots
RealBlocksAround(call) ==
    {b \in {call.eviction.scanned[i] : i \in 1..Len(call.eviction.scanned)}
              \cup {TreeBlock(ns) : ns \in WrittenSlots(call)}
              \cup {blocks[i] : i \in (path_size + 1)..Len(blocks)} :
        ~ct_is_dummy(b)}

\* C30: write_to_path conserves the real blocks: once it has returned, each
\* real block, with its address, position and value, is found in the h+1
\* buckets written and the stash slots from P on as many times as it was in
\* the whole stash before the call; none is dropped, duplicated or altered
\* by the assignment, the growth of the stash or the sort.
C30_RealBlocksConserved ==
    (new_result = "Ok" /\ last.status = "Ok") =>
        \A b \in RealBlocksAround(last) : FoundAfter(last, b) = HeldBefore(last, b)

\* write_to_path has returned from a stash that it grew, leaving real blocks
\* of both values in the buckets of the path and behind the path slots of
\* the stash
C30_Witness ==
    /\ last.op = "write_to_path"
    /\ last.status = "Ok"
    /\ last.eviction.passes >= 2
    /\ Len(blocks) > last.stash_len
    /\ \A v \in Values :
          /\ \E ns \in WrittenSlots(last) :
                ~ct_is_dummy(TreeBlock(ns)) /\ TreeBlock(ns).value = v
          /\ \E i \in (path_size + 1)..Len(blocks) :
                ~ct_is_dummy(blocks[i]) /\ blocks[i].value = v

----------------------------------------------------------------------------
(* The block of a valid address is always found *)

\* C31: in every access to an address a in [0, C) the stash that
\* stash.access is given, after the path of the old position was read into
\* it, holds the block of address a, in a path slot or behind them, exactly
\* once; the scan finds it and the last slot is left as it was: no block is
\* created for a valid address.
C31_ValidAddressIsFound ==
    [][(Scans /\ last'.address \in InRange) =>
          /\ Cardinality(SlotsOf(StashGiven, last'.address)) = 1
          /\ SlotsOf(StashLeft, last'.address) = SlotsOf(StashGiven, last'.address)
          /\ StashLeft[Len(StashLeft)] = StashGiven[Len(StashGiven)]
          /\ last'.value = mirror[last'.address]]_vars

\* an access found its block behind the path slots of the stash, where an
\* earlier eviction had left it, the last slot holding a dummy
C31_Witness ==
    /\ last.status = "Ok"
    /\ last.address \in InRange
    /\ \E i \in (path_size + 1)..(Len(last.eviction.scanned) - 1) :
          /\ last.eviction.scanned[i].address = last.address
          /\ last.eviction.scanned[i].position = last.new_position
    /\ ct_is_dummy(last.eviction.scanned[Len(last.eviction.scanned)])

----------------------------------------------------------------------------
(* How much the overflow of the stash can grow in one access *)

\* the path slots of the stash given to the eviction of the call that hold
\* a real block other than the one accessed
PathBlocksKept(call) ==
    {i \in 1..path_size :
        /\ ~ct_is_dummy(call.eviction.scanned[i])
        /\ call.eviction.scanned[i].address # call.address}

\* C32: across one access the number of real blocks in the stash slots
\* from P on grows by at most 1: stage 1 meets the blocks read from the
\* path before the blocks behind the path slots and gives each of them,
\* except possibly the accessed block, whose position has changed, a level
\* of the path.
C32_OverflowGrowsByAtMostOne ==
    [][(Called /\ last'.status = "Ok") =>
          /\ occupancy(blocks', path_size') <= occupancy(blocks, path_size) + 1
          /\ \A i \in PathBlocksKept(last') :
                last'.eviction.stage1_assignments[i] \in 0..height]_vars

\* an access read its block from the path and could not write it back: the
\* block went behind the path slots, next to a block that was there
\* already, while the other blocks of the path kept a level
C32_Witness ==
    /\ last.status = "Ok"
    /\ \E i \in 1..path_size :
          /\ last.eviction.scanned[i].address = last.address
          /\ last.eviction.stage1_assignments[i] = TreeIndex_MAX - 1
    /\ \E j \in OverflowSlots : blocks[j].address = last.address
    /\ occupancy(blocks, path_size) >= 2
    /\ PathBlocksKept(last) # {}

----------------------------------------------------------------------------
(* The path an access reveals *)

\* the call asked the position map
LookedUp(call) == call.pm_lookups > 0 /\ call.status # "AddressOutOfBoundsError"

\* C33: the leaf whose path an access to address a reads and writes is the
\* entry the position map held for a, that is the leaf drawn by the
\* previous access to a or a's initial leaf: the access draws one leaf and
\* puts it in the entry of a before it touches the path, and changes no
\* other entry, so once a leaf has been used as the old position it is no
\* longer in the map and no later access uses that draw again.
C33_RevealedPathIsAFreshDraw ==
    [][(Called /\ LookedUp(last')) =>
          /\ last'.draws = 1
          /\ last'.position = position_map[last'.address]
          /\ position_map'[last'.address] = last'.new_position
          /\ \A b \in (DOMAIN position_map) \ {last'.address} :
                position_map'[b] = position_map[b]
          /\ DOMAIN position_map' = DOMAIN position_map
          /\ last'.steps[1] = <<"position_map.write", last'.address, last'.new_position>>
          /\ last'.status = "Ok" =>
                /\ last'.steps[2] = <<"read_from_path", position_map[last'.address]>>
                /\ last'.steps[4] = <<"write_to_path", position_map[last'.address]>>
                /\ last'.reads[1] = position_map[last'.address]]_vars

\* on a tree of height 1, a second or later access was served from one
\* leaf and left the other leaf in the map for the next access to its
\* address
C33_Witness ==
    /\ height = 1
    /\ accesses >= 2
    /\ last.status = "Ok"
    /\ last.address \in InRange
    /\ last.position # last.new_position
    /\ last.reads[1] = last.position
    /\ position_map[last.address] = last.new_position

----------------------------------------------------------------------------
(* The position blocks that PathOram::new writes, for any address block     *)
(* size: the construction of the position map run by itself on a capacity,  *)
(* a block size ab (the const parameter AB) and a permutation.  `last`      *)
(* keeps the arguments, the position blocks written, in order, the indices  *)
(* at which the padded array was read and its length.                       *)

MaxBlockSize == 6
MaxBlocksCapacity == 8

\* every rotation of 0..n-1
rotations_of_0_through_n_exclusive(n) ==
    {[i \in 0..(n - 1) |-> (i + r) % n] : r \in 0..(n - 1)}

\* num_position_blocks with the division rounded down
num_position_blocks_rounded_down(capacity, ab) == capacity \div ab

\* num_blocks: the number of position blocks
num_position_blocks(capacity, ab) ==
    (capacity \div ab) + (IF capacity % ab > 0 THEN 1 ELSE 0)

\* addresses_to_slot_indices once resized, when ab does not divide the
\* capacity, to capacity + ab entries, the new ones 0
resized_addresses_to_slot_indices(capacity, ab, addresses_to_slot_indices) ==
    IF capacity % ab > 0
    THEN [a \in 0..(capacity + ab - 1) |->
             IF a < capacity THEN addresses_to_slot_indices[a] ELSE 0]
    ELSE addresses_to_slot_indices

\* the indices at which the loop over the position blocks reads the array
indices_read(num_blocks, ab) ==
    {block_index * ab + i : block_index \in 0..(num_blocks - 1), i \in 0..(ab - 1)}

\* the position block of index block_index; an entry read outside the array
\* is written -1
position_block(ab, block_index, first_leaf_index, addresses_to_slot_indices) ==
    [base |-> block_index * ab,
     data |-> [i \in 0..(ab - 1) |->
                  IF block_index * ab + i \in DOMAIN addresses_to_slot_indices
                  THEN first_leaf_index
                           + (addresses_to_slot_indices[block_index * ab + i] \div 2)
                  ELSE -1]]

\* the position blocks written by PathOram::new, in order
position_blocks(capacity, ab, slot_indices_to_addresses) ==
    LET h == ilog2(capacity) - 1
        first_leaf_index == pow2(h)
        resized == resized_addresses_to_slot_indices(capacity, ab,
                       invert_permutation_oblivious(slot_indices_to_addresses))
        num_blocks == num_position_blocks(capacity, ab)
    IN  [written |-> [k \in 1..num_blocks |->
                         position_block(ab, k - 1, first_leaf_index, resized)] \o <<>>,
         indexed |-> indices_read(num_blocks, ab),
         resized_len |-> Cardinality(DOMAIN resized),
         height |-> h]

\* the position map holding the position blocks `written`
position_map_of(written) ==
    [a \in UNION {{written[k].base + i : i \in DOMAIN written[k].data} :
                     k \in 1..Len(written)} |->
        LET k == CHOOSE k \in 1..Len(written) :
                     a - written[k].base \in DOMAIN written[k].data
        IN  written[k].data[a - written[k].base]]

\* PathOram::<V, Z, ab, RT>::new(capacity, rng), as far as the position map
\* goes, the permutation drawn being slot_indices_to_addresses
NewPositionBlocks(capacity, ab) ==
    /\ new_result = "None"
    /\ block_capacity' = capacity
    /\ IF invalid_configuration(capacity)
       THEN /\ new_result' = "InvalidConfigurationError"
            /\ last' = [op |-> "PathOram::new", AB |-> ab]
            /\ UNCHANGED <<height, position_map>>
       ELSE \E slot_indices_to_addresses \in rotations_of_0_through_n_exclusive(capacity) :
            \E r \in {position_blocks(capacity, ab, slot_indices_to_addresses)} :
                /\ new_result' = "Ok"
                /\ height' = r.height
                /\ position_map' = position_map_of(r.written)
                /\ last' = [op |-> "PathOram::new", AB |-> ab,
                            slot_indices_to_addresses |-> slot_indices_to_addresses,
                            written |-> r.written, indexed |-> r.indexed,
                            resized_len |-> r.resized_len]
    /\ UNCHANGED <<physical_memory, blocks, path_size, mirror, accesses>>

PositionBlocksNext ==
    \E capacity \in 0..MaxBlocksCapacity, ab \in 1..MaxBlockSize :
        NewPositionBlocks(capacity, ab)

PositionBlocksSpec == Init /\ [][PositionBlocksNext]_vars

\* the slot index that the permutation of the call gives to the address a
SlotIndexOf(call, a) ==
    CHOOSE s \in DOMAIN call.slot_indices_to_addresses :
        call.slot_indices_to_addresses[s] = a

\* C34: for a capacity C that is a power of two >= 2 and any block size AB,
\* PathOram::new writes exactly ceil(C / AB) position blocks, with the base
\* addresses 0, AB, 2*AB, ...; entry i of block k is
\* 2^h + (slot index of address k*AB + i) / 2 when k*AB + i < C and the
\* padding value 2^h otherwise; and the padded array of slot indices is
\* never read outside its bounds.
C34_PositionBlocksWritten ==
    (last.op = "PathOram::new" /\ new_result = "Ok") =>
        /\ Len(last.written) * last.AB >= block_capacity
        /\ (Len(last.written) - 1) * last.AB < block_capacity
        /\ \A k \in 1..Len(last.written) :
              /\ last.written[k].base = (k - 1) * last.AB
              /\ DOMAIN last.written[k].data = 0..(last.AB - 1)
              /\ \A i \in 0..(last.AB - 1) :
                    last.written[k].data[i] =
                        IF (k - 1) * last.AB + i < block_capacity
                        THEN 2 ^ height
                                 + (SlotIndexOf(last, (k - 1) * last.AB + i) \div 2)
                        ELSE 2 ^ height
        /\ last.indexed \subseteq 0..(last.resized_len - 1)
        /\ DOMAIN position_map = 0..(Len(last.written) * last.AB - 1)
        /\ last.AB = AB =>
              position_map = new(block_capacity, last.slot_indices_to_addresses).position_map

\* a capacity of 8 with position blocks of 3 entries: three blocks were
\* written, the last with one padded entry, for a permutation that is not
\* the identity
C34_Witness ==
    /\ last.op = "PathOram::new"
    /\ new_result = "Ok"
    /\ block_capacity = 8
    /\ last.AB = 3
    /\ Len(last.written) = 3
    /\ last.written[3].base = 6
    /\ last.written[3].data[2] = 4
    /\ last.slot_indices_to_addresses[0] # 0
    /\ position_map[0] = 7

----------------------------------------------------------------------------
(* BitonicStash::write_to_path (src/src/path_oram/stash.rs), the eviction   *)
(* of the fixed-size stash, run by itself on a stash holding any number of  *)
(* real blocks.  `blocks` is the stash, `physical_memory` the tree and      *)
(* `last` the call: the leaf it evicts to and what its stages computed.     *)

MaxBitonicHeight == 2

\* the depth of the deepest node that the paths to leaf1 and to leaf2 share
common_ancestor_depth(leaf1, leaf2, h) ==
    CHOOSE d \in 0..h :
        /\ ct_node_on_path(leaf1, d, h) = ct_node_on_path(leaf2, d, h)
        /\ \A e \in (d + 1)..h :
              ct_node_on_path(leaf1, e, h) # ct_node_on_path(leaf2, e, h)

\* stage 1 for slot i: a real block goes to the level of the deepest bucket
\* of the path that lies on the path of its position, or, when that bucket
\* is full, to the overflow.  st = [level_counts, level_assignments].
bitonic_assign_block(stash_blocks, position, i, st) ==
    LET h == ct_depth(position)
        block == stash_blocks[i]
        block_is_dummy == ct_is_dummy(block)
        block_position == IF block_is_dummy THEN pow2(h) ELSE block.position
        block_level == common_ancestor_depth(block_position, position, h)
        block_level_bucket_full == st.level_counts[block_level + 1] = Z
    IN  IF block_is_dummy THEN st
        ELSE IF block_level_bucket_full
        THEN [level_counts |-> st.level_counts,
              level_assignments |->
                  [st.level_assignments EXCEPT ![i] = TreeIndex_MAX - 1]]
        ELSE [level_counts |-> [st.level_counts EXCEPT ![block_level + 1] = @ + 1],
              level_assignments |->
                  [st.level_assignments EXCEPT ![i] = block_level]]

\* stage 1, the loop over the slots lo..hi
RECURSIVE bitonic_assign_blocks(_, _, _, _, _)
bitonic_assign_blocks(stash_blocks, position, lo, hi, st) ==
    IF lo > hi THEN st
    ELSE IF lo = hi THEN bitonic_assign_block(stash_blocks, position, lo, st)
    ELSE LET mid == (lo + hi) \div 2
             half == bitonic_assign_blocks(stash_blocks, position, lo, mid, st)
         IN  IF half = st
             THEN bitonic_assign_blocks(stash_blocks, position, mid + 1, hi, st)
             ELSE bitonic_assign_blocks(stash_blocks, position, mid + 1, hi, half)

\* what BitonicStash::write_to_path leaves, given the result of stage 2
bitonic_sort_and_write(stash_blocks, memory, position, stage1, stage2, sorted) ==
    [blocks |-> sorted.items,
     memory |-> write_buckets(memory, sorted.items, position),
     eviction |-> [NoEviction EXCEPT
                      !.scanned = stash_blocks,
                      !.stage1_assignments = stage1.level_assignments,
                      !.stage1_counts = stage1.level_counts,
                      !.filled = stash_blocks,
                      !.level_assignments = stage2.level_assignments,
                      !.level_counts = stage2.level_counts,
                      !.sorted_keys = sorted.keys,
                      !.passes = 1]]

\* BitonicStash::write_to_path from stage 2 on: one pass of the dummy fill
\* over every slot of the stash, the sort and the writing of the buckets
bitonic_fill(stash_blocks, memory, position, stage1, stage2) ==
    bitonic_sort_and_write(stash_blocks, memory, position, stage1, stage2,
        bitonic_sort_by_keys(stash_blocks, stage2.level_assignments))

\* BitonicStash::write_to_path
bitonic_write_to_path(stash_blocks, memory, position, stage1) ==
    bitonic_fill(stash_blocks, memory, position, stage1,
        fill_pass(stash_blocks, ct_depth(position), 1, Len(stash_blocks), stage1))

\* the number of slots of the fixed-size stash of a tree of height h: the
\* power of two above the Z*(h+1) path slots
BitonicStashLen(h) == pow2(ilog2(Z * (h + 1)) + 1)

\* a stash of n slots whose first k slots and last j slots hold real
\* blocks, of positions q1 and q2, the slots between them dummies
BitonicStashOf(n, k, j, q1, q2) ==
    [i \in 1..n |->
        IF i <= k
        THEN [value |-> (i - 1) % (MaxValue + 1), address |-> i - 1, position |-> q1]
        ELSE IF i > n - j
        THEN [value |-> (i - 1) % (MaxValue + 1), address |-> i - 1, position |-> q2]
        ELSE dummy] \o <<>>

BitonicWriteInit ==
    \E h \in 1..MaxBitonicHeight :
    \E position \in OuterLeaves(h), q1 \in OuterLeaves(h), q2 \in OuterLeaves(h) :
    \E k \in 0..BitonicStashLen(h) :
    \E j \in 0..(BitonicStashLen(h) - k) :
        /\ new_result = "Ok"
        /\ block_capacity = pow2(h + 1)
        /\ height = h
        /\ physical_memory = [n \in 0..(pow2(h + 1) - 1) |-> [slot \in 1..Z |-> dummy]]
        /\ blocks = BitonicStashOf(BitonicStashLen(h), k, j, q1, q2)
        /\ path_size = Z * (h + 1)
        /\ position_map = <<>>
        /\ mirror = <<>>
        /\ accesses = 0
        /\ last = [op |-> "BitonicStash::write_to_path", status |-> "Called",
                   position |-> position, stash_len |-> BitonicStashLen(h),
                   eviction |-> NoEviction]

\* a call of BitonicStash::write_to_path(physical_memory, position)
BitonicWriteToPath ==
    /\ last.op = "BitonicStash::write_to_path"
    /\ last.status = "Called"
    /\ \E r \in {bitonic_write_to_path(blocks, physical_memory, last.position,
                     bitonic_assign_blocks(blocks, last.position, 1, Len(blocks),
                         [level_counts |-> copies(0, ct_depth(last.position) + 1),
                          level_assignments |-> copies(TreeIndex_MAX, Len(blocks))]))} :
           /\ blocks' = r.blocks
           /\ physical_memory' = r.memory
           /\ last' = [last EXCEPT !.status = "Ok", !.eviction = r.eviction]
    /\ accesses' = accesses + 1
    /\ UNCHANGED <<new_result, block_capacity, height, path_size, position_map,
                   mirror>>

BitonicWriteSpec == BitonicWriteInit /\ [][BitonicWriteToPath]_vars

\* C35: BitonicStash::write_to_path never writes a misplaced real block:
\* whatever the stash holds, every real block written into the bucket at
\* depth d of the path has that bucket as the depth-d ancestor of its
\* position, and no block carrying the overflow sentinel is written to the
\* tree.
C35_BitonicNeverMisplaces ==
    (last.op = "BitonicStash::write_to_path" /\ last.status = "Ok") =>
        \A d \in 0..height : \A slot \in 1..Z :
            /\ last.eviction.sorted_keys[Z * d + slot] # TreeIndex_MAX - 1
            /\ LET b == physical_memory[last.position \div (2 ^ (height - d))][slot]
               IN  ~ct_is_dummy(b) =>
                       b.position \div (2 ^ (height - d))
                           = last.position \div (2 ^ (height - d))
====
